---- MODULE Spec2Model ----
(***************************************************************************)
(* Model of scripts/parse.js of tree-sitter-starter: the command-line      *)
(* helper that maps a file's extension to a grammar package, parses the    *)
(* file and prints either the S-expression of the tree or a breadth-first  *)
(* JSON summary capped at 2000 nodes.                                      *)
(*                                                                         *)
(* Strings the program inspects character by character (command-line      *)
(* arguments, paths, extensions) are sequences of one-character strings.   *)
(* The file system, the grammar packages and the parser are the            *)
(* environment: their answers are chosen when the program asks.            *)
(***************************************************************************)
EXTENDS Integers, Sequences, FiniteSets, TLC

(***************************************************************************)
(* Bounds of the model.                                                    *)
(***************************************************************************)
\* longest command line (process.argv.slice(2)) that is explored
MaxArgs == 2
\* largest tree, in nodes, among the explicitly enumerated small trees
MaxTreeNodes == 4
\* longest command line of parse-cloned.sh that is explored
MaxShArgs == 2
\* number of runs of parse-cloned.sh in the same directory, one after another
MaxRuns == 2

(***************************************************************************)
(* Program constants.                                                      *)
(***************************************************************************)
\* the "safeguard" of the JSON traversal loop
NODE_CAP == 2000

\* process.exit(1) of usage()
EXIT_USAGE == 1

\* an unsupported extension reported with the status of usage()
ExitUnsupportedAsUsage == EXIT_USAGE

\* process.exit(2) after "No language configured for extension"
EXIT_UNSUPPORTED == 2

\* a failed grammar load reported with the status of usage()
ExitLoadFailureAsUsage == EXIT_USAGE

\* process.exit(2) after "Failed to load parser package"
EXIT_LOAD_FAILURE == 2

\* the literal '--json'
JsonFlag == <<"-", "-", "j", "s", "o", "n">>

\* value of a variable that has not been assigned (JavaScript undefined)
Undefined == "undefined"

(***************************************************************************)
(* String helpers: String.prototype.toLowerCase and path.extname.          *)
(***************************************************************************)
LowerChar(c) ==
  CASE c = "J" -> "j"
    [] c = "S" -> "s"
    [] c = "P" -> "p"
    [] c = "Y" -> "y"
    [] c = "T" -> "t"
    [] c = "X" -> "x"
    [] c = "O" -> "o"
    [] c = "N" -> "n"
    [] c = "R" -> "r"
    [] c = "A" -> "a"
    [] OTHER -> c

\* a string left in the case it was written in
KeepCase(s) == s

\* String.prototype.toLowerCase
ToLowerCase(s) == [i \in 1..Len(s) |-> LowerChar(s[i])]

\* index of the last occurrence of character c in s, 0 when there is none
LastIndexOf(s, c) ==
  LET hits == {i \in 1..Len(s) : s[i] = c}
  IN  IF hits = {} THEN 0 ELSE CHOOSE i \in hits : \A j \in hits : j <= i

\* the last portion of a path: what follows the last '/'
BaseName(p) == SubSeq(p, LastIndexOf(p, "/") + 1, Len(p))

\* path.extname: from the last '.' of the last portion to its end; empty
\* when there is no '.', when the only '.' is the first character of the
\* portion, and for the portion '..'
ExtName(p) ==
  LET b == BaseName(p)
      d == LastIndexOf(b, ".")
  IN  IF d = 0 \/ d = 1 \/ b = <<".", ".">> THEN <<>> ELSE SubSeq(b, d, Len(b))

(***************************************************************************)
(* The extension registry: extension -> grammar package the loader         *)
(* requires.                                                               *)
(***************************************************************************)
\* a registry whose TypeScript extensions require a package of their own
LoadersWithTypeScript ==
  (<<".", "j", "s">> :> "tree-sitter-javascript") @@
  (<<".", "j", "s", "x">> :> "tree-sitter-javascript") @@
  (<<".", "t", "s">> :> "tree-sitter-typescript") @@
  (<<".", "t", "s", "x">> :> "tree-sitter-typescript") @@
  (<<".", "j", "s", "o", "n">> :> "tree-sitter-json") @@
  (<<".", "p", "y">> :> "tree-sitter-python")

\* lines 18-25
LANGUAGE_LOADERS ==
  (<<".", "j", "s">> :> "tree-sitter-javascript") @@
  (<<".", "j", "s", "x">> :> "tree-sitter-javascript") @@
  (<<".", "t", "s">> :> "tree-sitter-javascript") @@
  (<<".", "t", "s", "x">> :> "tree-sitter-javascript") @@
  (<<".", "j", "s", "o", "n">> :> "tree-sitter-json") @@
  (<<".", "p", "y">> :> "tree-sitter-python")

\* a lookup that falls back to the JavaScript loader for an unknown key
LookupLoaderWithDefault(reg, e) ==
  IF e \in DOMAIN reg THEN reg[e] ELSE reg[<<".", "j", "s">>]

\* LANGUAGE_LOADERS[ext] of JavaScript: undefined for a key that is absent
LookupLoader(reg, e) == IF e \in DOMAIN reg THEN reg[e] ELSE Undefined

(***************************************************************************)
(* Syntax trees returned by parser.parse.  A tree is a descriptor; its     *)
(* nodes are 0 .. size-1, numbered in document (pre-)order, so node 0 is   *)
(* tree.rootNode.  The shapes:                                             *)
(*   "explicit"  any tree, given by the parent of each node 1 .. size-1    *)
(*   "chain"     node n has the single child n+1                           *)
(*   "star"      the root has every other node as a child                  *)
(*   "fork"      the root has two children, each the head of a chain; the  *)
(*               first chain has ForkSplit nodes                           *)
(* The nodes in tree.errors are ERROR nodes: the parser puts them where    *)
(* the source text has a syntax error.                                     *)
(***************************************************************************)
ForkSplit(t) == (t.size - 1) \div 3

\* n.child(0), ..., n.child(n.childCount - 1)
ChildrenOf(t, n) ==
  CASE t.shape = "chain" -> IF n + 1 < t.size THEN <<n + 1>> ELSE <<>>
    [] t.shape = "star" ->
         IF n = 0 THEN [i \in 1..(t.size - 1) |-> i] ELSE <<>>
    [] t.shape = "fork" ->
         LET m == ForkSplit(t)
         IN  IF n = 0
             THEN (IF m >= 1 THEN <<1>> ELSE <<>>) \o
                  (IF m + 1 < t.size THEN <<m + 1>> ELSE <<>>)
             ELSE IF n + 1 < t.size /\ n # m THEN <<n + 1>> ELSE <<>>
    [] OTHER ->
         LET kids == {k \in 1..(t.size - 1) : t.par[k] = n}
             nth[i \in 1..Cardinality(kids)] ==
               CHOOSE k \in kids : Cardinality({j \in kids : j < k}) = i - 1
         IN  nth

\* n.childCount
ChildCount(t, n) == Len(ChildrenOf(t, n))

\* tree.rootNode
RootNode(t) == 0

NodesOf(t) == 0..(t.size - 1)

\* number of edges between a node and the root
DepthOf(t, n) ==
  CASE t.shape = "chain" -> n
    [] t.shape = "star" -> IF n = 0 THEN 0 ELSE 1
    [] t.shape = "fork" ->
         IF n = 0 THEN 0 ELSE IF n <= ForkSplit(t) THEN n ELSE n - ForkSplit(t)
    [] OTHER ->
         LET up[k \in 0..(t.size - 1)] == IF k = 0 THEN 0 ELSE 1 + up[t.par[k]]
         IN  up[n]

\* number of nodes of the subtree rooted at n
SubtreeSize(t, n) ==
  CASE t.shape = "chain" -> t.size - n
    [] t.shape = "star" -> IF n = 0 THEN t.size ELSE 1
    [] t.shape = "fork" ->
         IF n = 0 THEN t.size
         ELSE IF n <= ForkSplit(t) THEN ForkSplit(t) - n + 1 ELSE t.size - n
    [] OTHER ->
         LET anc[k \in 0..(t.size - 1)] ==
               IF k = 0 THEN {0} ELSE {k} \cup anc[t.par[k]]
         IN  Cardinality({k \in NodesOf(t) : n \in anc[k]})

\* node.type, node.isNamed(), node.startPosition, node.endPosition: each
\* node covers one column of its own followed by the columns of its subtree
NodeType(t, n) ==
  IF n \in t.errors THEN "ERROR"
  ELSE IF n = 0 THEN "program"
  ELSE IF ChildCount(t, n) > 0 THEN "expression"
  ELSE IF n % 2 = 1 THEN "identifier" ELSE ";"

NodeIsNamed(t, n) == NodeType(t, n) # ";"

NodeStart(t, n) == [row |-> 0, column |-> n]

NodeEnd(t, n) == [row |-> 0, column |-> n + SubtreeSize(t, n)]

\* parent vectors of the trees with n nodes numbered in document order: the
\* parent of node k is node k-1 or one of its ancestors
IsDocumentOrder(par, n) ==
  \A k \in 1..(n - 1) :
    /\ par[k] < k
    /\ k > 1 =>
         LET anc[j \in 0..(n - 1)] == IF j = 0 THEN {0} ELSE {j} \cup anc[par[j]]
         IN  par[k] \in anc[k - 1]

ExplicitTrees ==
  UNION {{[shape |-> "explicit", size |-> n, par |-> p, errors |-> e] :
            p \in {q \in [1..(n - 1) -> 0..(n - 1)] : IsDocumentOrder(q, n)},
            e \in {{}, {n - 1}}} :
         n \in 1..MaxTreeNodes}

\* a tree of one of the parametric shapes
ShapedTree(shape, size) ==
  [shape |-> shape, size |-> size, par |-> <<>>, errors |-> {}]

\* trees at and around the cap of the JSON traversal
CapTrees ==
  {ShapedTree(sh, n) :
     sh \in {"chain", "star", "fork"},
     n \in {NODE_CAP, NODE_CAP + 1, NODE_CAP + MaxTreeNodes}}

\* trees whose S-expression has about as many nodes as the cap of the JSON
\* traversal, or more: every other leaf of a star is a named node
TextCapTrees ==
  {ShapedTree("star", n) :
     n \in {2 * NODE_CAP - 1, 2 * NODE_CAP + 1, 2 * (NODE_CAP + MaxTreeNodes)}}

\* node.toString(): the S-expression of the named nodes of a subtree, as the
\* sequence of its tokens
RECURSIVE SExpr(_, _)
SExpr(t, n) ==
  LET kids == ChildrenOf(t, n)
      \* the S-expressions of the named children lo .. hi, in order
      RECURSIVE Join(_, _)
      Join(lo, hi) ==
        IF lo > hi THEN <<>>
        ELSE IF lo = hi
        THEN (IF NodeIsNamed(t, kids[lo]) THEN SExpr(t, kids[lo]) ELSE <<>>)
        ELSE LET mid == (lo + hi) \div 2
             IN  Join(lo, mid) \o Join(mid + 1, hi)
  IN  <<"(", NodeType(t, n)>> \o Join(1, Len(kids)) \o <<")">>

(***************************************************************************)
(* Inputs and environment.                                                 *)
(***************************************************************************)
\* paths given on the command line
Paths ==
  { <<"a", ".", "j", "s">>,
    <<"a", ".", "J", "S">>,
    <<"d", "/", "a", ".", "j", "s">>,
    <<"a", ".", "j", "s", "x">>,
    <<"a", ".", "t", "s">>,
    <<"a", ".", "t", "s", "x">>,
    <<"a", ".", "j", "s", "o", "n">>,
    <<"a", ".", "p", "y">>,
    <<"a", ".", "r", "s">>,
    <<"a">>,
    <<".", "j", "s">>,
    <<"a", ".", "p", "y", "/", "a">>,
    <<"a", ".">> }

Tokens == Paths \cup {JsonFlag}

\* process.argv.slice(2)
ArgLists == UNION {[1..n -> Tokens] : n \in 0..MaxArgs}

\* what a path names on disk
FileKinds == {"missing", "file", "directory", "unreadable"}

\* messages of the errors a grammar loader (require) throws
LoaderErrors == {"Cannot find module", "Module did not self-register"}

\* messages of the errors parser.setLanguage and parser.parse throw
ParseErrors == {"Invalid language object"}

\* message of the error fs.readFileSync throws for a path of the given kind
ReadError(kind) ==
  IF kind = "directory" THEN "EISDIR: illegal operation on a directory, read"
  ELSE "EACCES: permission denied, open"

(***************************************************************************)
(* State of one run of parse.js.                                           *)
(***************************************************************************)
VARIABLES
  registry,    \* the object LANGUAGE_LOADERS is bound to
  pc,          \* position of the script
  args,        \* process.argv.slice(2)
  argIdx,      \* position of the for-of loop over args
  jsonMode,
  fileArgs,
  targetPath,
  fileKind,    \* what targetPath names on disk, once the script has asked
  ext,
  loader,      \* the package the selected loader requires
  Language,
  code,
  tree,
  root,
  queue,
  out,
  stdout,      \* what console.log has written
  stderr,      \* what console.error and an uncaught exception have written
  exitCode,    \* the exit status, meaningful once pc = "exited"
  uncaught,    \* the run ended by an exception nothing caught
  thrown,      \* message of the exception raised, if any
  calls,       \* history: the steps taken, in order
  visited      \* history: the nodes summarised into out, in order

(***************************************************************************)
(* State of parse-cloned.sh: the shell variables of the script, the disk   *)
(* under the directory it is started in, and what its runs have done.      *)
(***************************************************************************)
VARIABLES
  shPc,        \* position of the script
  argv0,       \* history: "$@" as the run was started
  argv,        \* "$@": the positional parameters not yet shifted away
  UPDATE,
  LIST,
  TARGET,
  EXT,
  LANG_REPO,
  REPO_DIR,
  CLONE_PATH,
  cwd,         \* working directory of the shell executing commands
  rootKind,    \* what .parsers is on disk
  dirs,        \* the directories that exist under .parsers
  targetKind,  \* what $TARGET names, once the script has asked
  dirSeen,     \* history: what the test [[ -d "$CLONE_PATH" ]] saw in this run
  cmds,        \* history: the external commands of this run, in order
  shOut,       \* what the run has written to standard output
  shErr,       \* what the run has written to standard error
  shStatus,    \* the exit status, meaningful once shPc = "exited"
  runs,        \* history: the number of runs started
  cloneCount   \* history: successful clones of each repository, over all runs

shVars ==
  <<shPc, argv0, argv, UPDATE, LIST, TARGET, EXT, LANG_REPO, REPO_DIR, CLONE_PATH,
    cwd, rootKind, dirs, targetKind, dirSeen, cmds, shOut, shErr, shStatus,
    runs, cloneCount>>

jsVars ==
  <<registry, pc, args, argIdx, jsonMode, fileArgs, targetPath, fileKind, ext,
    loader, Language, code, tree, root, queue, out, stdout, stderr, exitCode,
    uncaught, thrown, calls, visited>>

(***************************************************************************)
(* State of a parse under the simple_calc grammar of tutorial 5: the       *)
(* generated parser is a shift-reduce automaton over the tokens.           *)
(***************************************************************************)
VARIABLES
  calcPc,      \* "idle", "parsing" or "done"
  source,      \* history: the tokens of the text given to the parser
  tokens,      \* the tokens not yet consumed
  stack,       \* the nodes built so far, the most recent last
  parsed       \* the tree returned

calcVars == <<calcPc, source, tokens, stack, parsed>>

(***************************************************************************)
(* State of one OptimizedParser object of the deployment guide.            *)
(***************************************************************************)
VARIABLES
  opPc,            \* "idle" before the constructor has run, "ready" after
  language,        \* this.language
  parserLanguage,  \* the language this.parser parses with
  parseCache,      \* this.parseCache: text |-> tree
  result,          \* the value the last call returned
  lastCall         \* history: the last call and how it ended

cacheVars == <<opPc, language, parserLanguage, parseCache, result, lastCall>>

exampleVars == <<calcVars, cacheVars>>

vars == <<jsVars, shVars, exampleVars>>

\* a syntax node: its type, the field it fills in its parent, its children
Node(type, kids) == [type |-> type, field |-> "", kids |-> kids]

\* no parse is going on
CalcIdle ==
  /\ calcPc = "idle"
  /\ source = <<>>
  /\ tokens = <<>>
  /\ stack = <<>>
  /\ parsed = Node("none", <<>>)

\* null
Null == "null"

\* a tree: the text it was parsed from, the language it was parsed under
Tree(text, lang) == [text |-> text, lang |-> lang]

NoResult == Tree(0, Null)

NoCall == [op |-> "none", arg |-> Null, changed |-> FALSE, threw |-> FALSE]

\* lines 770-774: the fields as the constructor leaves them
Constructed ==
  /\ language = Null
  /\ parserLanguage = Null
  /\ parseCache = <<>>
  /\ result = NoResult
  /\ lastCall = NoCall

\* no OptimizedParser has been made
CacheIdle == opPc = "idle" /\ Constructed

ExamplesIdle == CalcIdle /\ CacheIdle

NoTree == ShapedTree("none", 0)

Line(text, arg) == [text |-> text, arg |-> arg]

UsageLines ==
  << Line("Usage: node scripts/parse.js <file> [--json]", <<>>),
     Line("  --json   Output a structured JSON form (root node + child summaries)",
          <<>>) >>

\* usage(msg): the message, if any, and the usage text on stderr; exit 1
usage(msg) ==
  /\ stderr' = stderr \o msg \o UsageLines
  /\ exitCode' = EXIT_USAGE
  /\ pc' = "exited"

\* process.exit(status) after writing the given lines to stderr
ExitWith(lines, status) ==
  /\ stderr' = stderr \o lines
  /\ exitCode' = status
  /\ pc' = "exited"

\* an exception that no handler catches: node prints it and exits with 1
Throw(message) ==
  /\ stderr' = Append(stderr, Line(message, <<>>))
  /\ exitCode' = 1
  /\ uncaught' = TRUE
  /\ thrown' = message
  /\ pc' = "exited"

\* parse-cloned.sh is not running
ShellIdle ==
  /\ shPc = "idle"
  /\ argv0 = <<>>
  /\ argv = <<>>
  /\ UPDATE = FALSE
  /\ LIST = FALSE
  /\ TARGET = <<>>
  /\ EXT = <<>>
  /\ LANG_REPO = ""
  /\ REPO_DIR = <<>>
  /\ CLONE_PATH = <<>>
  /\ cwd = <<>>
  /\ rootKind = "absent"
  /\ dirs = {}
  /\ targetKind = Undefined
  /\ dirSeen = Undefined
  /\ cmds = <<>>
  /\ shOut = <<>>
  /\ shErr = <<>>
  /\ shStatus = -1
  /\ runs = 0
  /\ cloneCount = <<>>

\* the state of parse.js before its first statement, for the given arguments
ScriptState(position, a) ==
  /\ registry = LANGUAGE_LOADERS
  /\ pc = position
  /\ args = a
  /\ argIdx = 1
  /\ jsonMode = FALSE
  /\ fileArgs = <<>>
  /\ targetPath = <<>>
  /\ fileKind = Undefined
  /\ ext = <<>>
  /\ loader = Undefined
  /\ Language = Undefined
  /\ code = Undefined
  /\ tree = NoTree
  /\ root = 0
  /\ queue = <<>>
  /\ out = <<>>
  /\ stdout = <<>>
  /\ stderr = <<>>
  /\ exitCode = -1
  /\ uncaught = FALSE
  /\ thrown = Undefined
  /\ calls = <<>>
  /\ visited = <<>>

Init ==
  /\ ShellIdle
  /\ ExamplesIdle
  /\ \E a \in ArgLists : ScriptState("start", a)

\* parse.js is not running
NodeIdle == ScriptState("idle", <<>>)

\* lines 34-37: no argument at all is a usage error
Start ==
  /\ pc = "start"
  /\ IF Len(args) = 0
     THEN /\ usage(<<>>)
          /\ UNCHANGED <<argIdx, jsonMode, fileArgs>>
     ELSE /\ pc' = "argloop"
          /\ argIdx' = 1
          /\ jsonMode' = FALSE
          /\ fileArgs' = <<>>
          /\ UNCHANGED <<stderr, exitCode>>
  /\ UNCHANGED <<shVars, exampleVars, registry, thrown, args, targetPath, fileKind, ext, loader, Language, code, tree,
                 root, queue, out, stdout, uncaught, calls, visited>>

\* lines 39-41: one iteration of the loop over args
ArgLoop ==
  /\ pc = "argloop"
  /\ argIdx <= Len(args)
  /\ IF args[argIdx] = JsonFlag
     THEN jsonMode' = TRUE /\ UNCHANGED fileArgs
     ELSE fileArgs' = Append(fileArgs, args[argIdx]) /\ UNCHANGED jsonMode
  /\ argIdx' = argIdx + 1
  /\ UNCHANGED <<shVars, exampleVars, registry, thrown, pc, args, targetPath, fileKind, ext, loader, Language, code,
                 tree, root, queue, out, stdout, stderr, exitCode, uncaught,
                 calls, visited>>

\* the check of the file arguments that only rejects their absence
CheckFileArgsAcceptsMany ==
  /\ pc = "argloop"
  /\ argIdx > Len(args)
  /\ IF Len(fileArgs) = 0
     THEN /\ usage(<<Line("Error: Provide exactly one source file", <<>>)>>)
          /\ UNCHANGED targetPath
     ELSE /\ targetPath' = fileArgs[1]
          /\ pc' = "exists"
          /\ UNCHANGED <<stderr, exitCode>>
  /\ UNCHANGED <<shVars, exampleVars, registry, thrown, args, argIdx, jsonMode, fileArgs, fileKind,
                 ext, loader, Language, code, tree, root, queue, out, stdout,
                 uncaught, calls, visited>>

\* lines 42-44: exactly one file argument
CheckFileArgs ==
  /\ pc = "argloop"
  /\ argIdx > Len(args)
  /\ IF Len(fileArgs) # 1
     THEN /\ usage(<<Line("Error: Provide exactly one source file", <<>>)>>)
          /\ UNCHANGED targetPath
     ELSE /\ targetPath' = fileArgs[1]
          /\ pc' = "exists"
          /\ UNCHANGED <<stderr, exitCode>>
  /\ UNCHANGED <<shVars, exampleVars, registry, thrown, args, argIdx, jsonMode, fileArgs, fileKind, ext, loader,
                 Language, code, tree, root, queue, out, stdout, uncaught, calls,
                 visited>>

\* the existence check with its result ignored
CheckExistsIgnored ==
  /\ pc = "exists"
  /\ \E kind \in FileKinds : fileKind' = kind
  /\ pc' = "lookup"
  /\ calls' = Append(calls, "existsSync")
  /\ UNCHANGED <<shVars, exampleVars, registry, thrown, args, argIdx, jsonMode, fileArgs, targetPath, ext,
                 loader, Language, code, tree, root, queue, out, stdout, stderr,
                 exitCode, uncaught, visited>>

\* line 45: fs.existsSync(targetPath)
CheckExists ==
  /\ pc = "exists"
  /\ \E kind \in FileKinds :
       /\ fileKind' = kind
       /\ IF kind = "missing"
          THEN usage(<<Line("Error: File not found: ", targetPath)>>)
          ELSE pc' = "lookup" /\ UNCHANGED <<stderr, exitCode>>
  /\ calls' = Append(calls, "existsSync")
  /\ UNCHANGED <<shVars, exampleVars, registry, thrown, args, argIdx, jsonMode, fileArgs, targetPath, ext, loader,
                 Language, code, tree, root, queue, out, stdout, uncaught,
                 visited>>

\* a lookup that enters an unknown extension into the registry, with the
\* JavaScript grammar
LookupRegistersUnknown ==
  /\ pc = "lookup"
  /\ ext' = ToLowerCase(ExtName(targetPath))
  /\ registry' =
       (IF ext' \in DOMAIN registry THEN registry
        ELSE registry @@ (ext' :> "tree-sitter-javascript"))
  /\ loader' = LookupLoader(registry', ext')
  /\ pc' = "load"
  /\ calls' = Append(calls, "lookup")
  /\ UNCHANGED <<shVars, exampleVars, thrown, args, argIdx, jsonMode, fileArgs, targetPath,
                 fileKind, Language, code, tree, root, queue, out, stdout,
                 stderr, exitCode, uncaught, visited>>

\* a lookup after which the file is read before the grammar is loaded
LookupThenRead ==
  /\ pc = "lookup"
  /\ ext' = ToLowerCase(ExtName(targetPath))
  /\ loader' = LookupLoader(registry, ext')
  /\ IF loader' = Undefined
     THEN ExitWith(<<Line("No language configured for extension: ", ext'),
                     Line("Edit scripts/parse.js to add one.", <<>>)>>,
                   EXIT_UNSUPPORTED)
     ELSE pc' = "read" /\ UNCHANGED <<stderr, exitCode>>
  /\ calls' = Append(calls, "lookup")
  /\ UNCHANGED <<shVars, exampleVars, registry, thrown, args, argIdx, jsonMode, fileArgs,
                 targetPath, fileKind, Language, code, tree, root, queue, out,
                 stdout, uncaught, visited>>

\* lines 47-53: the registry lookup by lowercased extension
Lookup ==
  /\ pc = "lookup"
  /\ ext' = ToLowerCase(ExtName(targetPath))
  /\ loader' = LookupLoader(registry, ext')
  /\ IF loader' = Undefined
     THEN ExitWith(<<Line("No language configured for extension: ", ext'),
                     Line("Edit scripts/parse.js to add one.", <<>>)>>,
                   EXIT_UNSUPPORTED)
     ELSE pc' = "load" /\ UNCHANGED <<stderr, exitCode>>
  /\ calls' = Append(calls, "lookup")
  /\ UNCHANGED <<shVars, exampleVars, registry, thrown, args, argIdx, jsonMode, fileArgs, targetPath, fileKind,
                 Language, code, tree, root, queue, out, stdout, uncaught,
                 visited>>

\* the loader called outside the try block
LoadGrammarNoCatch ==
  /\ pc = "load"
  /\ \/ /\ Language' = loader
        /\ pc' = "read"
        /\ UNCHANGED <<stderr, exitCode, thrown, uncaught>>
     \/ \E e \in LoaderErrors :
          /\ Throw(e)
          /\ UNCHANGED Language
  /\ calls' = Append(calls, "loader")
  /\ UNCHANGED <<shVars, exampleVars, registry, args, argIdx, jsonMode, fileArgs, targetPath, fileKind, ext,
                 loader, code, tree, root, queue, out, stdout, visited>>

\* a load step that is tried again after it threw
LoadGrammarRetries ==
  /\ pc = "load"
  /\ \/ /\ Language' = loader
        /\ pc' = "read"
        /\ UNCHANGED thrown
     \/ \E e \in LoaderErrors :
          /\ thrown' = e
          /\ UNCHANGED <<Language, pc>>
  /\ calls' = Append(calls, "loader")
  /\ UNCHANGED <<shVars, exampleVars, registry, args, argIdx, jsonMode, fileArgs, targetPath,
                 fileKind, ext, loader, code, tree, root, queue, out, stdout,
                 stderr, exitCode, uncaught, visited>>

\* a load step that reports its failure with console.log
LoadGrammarLogsError ==
  /\ pc = "load"
  /\ \/ /\ Language' = loader
        /\ pc' = "read"
        /\ UNCHANGED <<stdout, exitCode, thrown>>
     \/ \E e \in LoaderErrors :
          /\ thrown' = e
          /\ stdout' = stdout \o
               <<Line("Failed to load parser package for <ext>. Did you install it?",
                      ext),
                 Line(thrown', <<>>)>>
          /\ exitCode' = EXIT_LOAD_FAILURE
          /\ pc' = "exited"
          /\ UNCHANGED Language
  /\ calls' = Append(calls, "loader")
  /\ UNCHANGED <<shVars, exampleVars, registry, args, argIdx, jsonMode, fileArgs,
                 targetPath, fileKind, ext, loader, code, tree, root, queue,
                 out, stderr, uncaught, visited>>

\* lines 55-62: the loader requires the grammar package, which may throw
LoadGrammar ==
  /\ pc = "load"
  /\ \/ /\ Language' = loader
        /\ pc' = "read"
        /\ UNCHANGED <<stderr, exitCode, thrown>>
     \/ \E e \in LoaderErrors :
          /\ thrown' = e
          /\ ExitWith(<<Line("Failed to load parser package for <ext>. Did you install it?",
                             ext),
                        Line(thrown', <<>>)>>, EXIT_LOAD_FAILURE)
          /\ UNCHANGED Language
  /\ calls' = Append(calls, "loader")
  /\ UNCHANGED <<shVars, exampleVars, registry, args, argIdx, jsonMode, fileArgs, targetPath, fileKind, ext,
                 loader, code, tree, root, queue, out, stdout, uncaught, visited>>

\* line 64: fs.readFileSync(targetPath, 'utf8'), outside any try block
ReadFile ==
  /\ pc = "read"
  /\ IF fileKind = "file"
     THEN /\ code' = "source text"
          /\ pc' = "parse"
          /\ UNCHANGED <<stderr, exitCode, uncaught, thrown>>
     ELSE /\ Throw(ReadError(fileKind))
          /\ UNCHANGED code
  /\ calls' = Append(calls, "readFileSync")
  /\ UNCHANGED <<shVars, exampleVars, registry, args, argIdx, jsonMode, fileArgs, targetPath, fileKind, ext,
                 loader, Language, tree, root, queue, out, stdout, visited>>

\* lines 65-67: new Parser(), setLanguage, parse, outside any try block; the
\* parser answers with one of the given trees or throws
ParseWith(trees) ==
  /\ pc = "parse"
  /\ \/ \E t \in trees :
          /\ tree' = t
          /\ pc' = "render"
          /\ UNCHANGED <<stderr, exitCode, uncaught, thrown>>
     \/ \E e \in ParseErrors :
          /\ Throw(e)
          /\ UNCHANGED tree
  /\ calls' = Append(calls, "parse")
  /\ UNCHANGED <<shVars, exampleVars, registry, args, argIdx, jsonMode, fileArgs, targetPath, fileKind, ext,
                 loader, Language, code, root, queue, out, stdout, visited>>

Parse == ParseWith(ExplicitTrees)

\* a text mode that treats a tree with ERROR nodes as a failure
PrintTextFailsOnError ==
  /\ pc = "render"
  /\ ~jsonMode
  /\ IF tree.errors # {}
     THEN /\ ExitWith(<<Line("Syntax error", <<>>)>>, 1)
          /\ UNCHANGED stdout
     ELSE /\ stdout' = Append(stdout, SExpr(tree, RootNode(tree)))
          /\ exitCode' = 0
          /\ pc' = "exited"
          /\ UNCHANGED stderr
  /\ UNCHANGED <<shVars, exampleVars, registry, thrown, args, argIdx, jsonMode, fileArgs, targetPath,
                 fileKind, ext, loader, Language, code, tree, root, queue, out,
                 uncaught, calls, visited>>

\* a text mode that prints no more than 2000 nodes
PrintTextCapped ==
  /\ pc = "render"
  /\ ~jsonMode
  /\ LET text == SExpr(tree, RootNode(tree))
     IN  stdout' = Append(stdout,
                          IF Len(text) <= 3 * NODE_CAP THEN text
                          ELSE SubSeq(text, 1, 3 * NODE_CAP))
  /\ exitCode' = 0
  /\ pc' = "exited"
  /\ UNCHANGED <<shVars, exampleVars, registry, thrown, args, argIdx, jsonMode, fileArgs, targetPath,
                 fileKind, ext, loader, Language, code, tree, root, queue, out,
                 stderr, uncaught, calls, visited>>

\* lines 69-72: text mode prints the S-expression and exits with 0
PrintText ==
  /\ pc = "render"
  /\ ~jsonMode
  /\ stdout' = Append(stdout, SExpr(tree, RootNode(tree)))
  /\ exitCode' = 0
  /\ pc' = "exited"
  /\ UNCHANGED <<shVars, exampleVars, registry, thrown, args, argIdx, jsonMode, fileArgs, targetPath, fileKind, ext,
                 loader, Language, code, tree, root, queue, out, stderr, uncaught,
                 calls, visited>>

\* lines 74-82
nodeSummary(t, node) ==
  [type |-> NodeType(t, node),
   named |-> NodeIsNamed(t, node),
   startPosition |-> NodeStart(t, node),
   endPosition |-> NodeEnd(t, node),
   childCount |-> ChildCount(t, node)]

\* a traversal that starts at the children of the root
StartTraversalAtChildren ==
  /\ pc = "render"
  /\ jsonMode
  /\ root' = RootNode(tree)
  /\ queue' = ChildrenOf(tree, root')
  /\ out' = <<>>
  /\ pc' = "traverse"
  /\ UNCHANGED <<shVars, exampleVars, registry, thrown, args, argIdx, jsonMode,
                 fileArgs, targetPath, fileKind, ext, loader, Language, code,
                 tree, stdout, stderr, exitCode, uncaught, calls, visited>>

\* lines 84-86: JSON mode starts the traversal at the root
StartTraversal ==
  /\ pc = "render"
  /\ jsonMode
  /\ root' = RootNode(tree)
  /\ queue' = <<root'>>
  /\ out' = <<>>
  /\ pc' = "traverse"
  /\ UNCHANGED <<shVars, exampleVars, registry, thrown, args, argIdx, jsonMode, fileArgs, targetPath, fileKind, ext,
                 loader, Language, code, tree, stdout, stderr, exitCode, uncaught,
                 calls, visited>>

\* a loop condition without the cap
LoopConditionUncapped(q, o) == Len(q) > 0

\* the loop condition with the cap compared by <= instead of <
LoopConditionInclusive(q, o) == Len(q) > 0 /\ Len(o) <= NODE_CAP

\* line 87: the condition of the while loop
LoopCondition(q, o) == Len(q) > 0 /\ Len(o) < NODE_CAP

\* the queue, the output and the history of visited nodes
LoopState == [queue |-> queue, out |-> out, visited |-> visited]

\* a loop body whose inner loop stops one child early
LoopBodySkipsLastChild(t, st) ==
  LET n == Head(st.queue)
      kids == ChildrenOf(t, n)
  IN  [queue |-> Tail(st.queue) \o SubSeq(kids, 1, Len(kids) - 1),
       out |-> Append(st.out, nodeSummary(t, n)),
       visited |-> Append(st.visited, n)]

\* a loop body that puts the children at the front of the queue
LoopBodyDepthFirst(t, st) ==
  LET n == Head(st.queue)
  IN  [queue |-> ChildrenOf(t, n) \o Tail(st.queue),
       out |-> Append(st.out, nodeSummary(t, n)),
       visited |-> Append(st.visited, n)]

\* lines 88-90: shift the head, summarise it, queue its children
LoopBody(t, st) ==
  LET n == Head(st.queue)
  IN  [queue |-> Tail(st.queue) \o ChildrenOf(t, n),
       out |-> Append(st.out, nodeSummary(t, n)),
       visited |-> Append(st.visited, n)]

\* lines 87-91: one evaluation of the condition and, if it holds, the body
LoopStep(t, st) ==
  IF LoopCondition(st.queue, st.out) THEN LoopBody(t, st) ELSE st

\* n evaluations of LoopStep, one after the other
RECURSIVE Iterate(_, _, _)
Iterate(t, st, n) ==
  IF n = 0 THEN st
  ELSE IF n = 1 THEN LoopStep(t, st)
  ELSE LET half == Iterate(t, st, n \div 2)
       IN  \* the first half is evaluated before the second half starts
           IF Len(half.out) >= 0 THEN Iterate(t, half, n - (n \div 2)) ELSE half

\* the loop cannot run more often than this: a node enters the queue once
IterationBudget(t) == t.size + 1

\* lines 87-91: one iteration of the while loop
Visit ==
  /\ pc = "traverse"
  /\ LoopCondition(queue, out)
  /\ LET st == LoopBody(tree, LoopState)
     IN  /\ queue' = st.queue
         /\ out' = st.out
         /\ visited' = st.visited
  /\ UNCHANGED <<shVars, exampleVars, registry, thrown, pc, args, argIdx, jsonMode, fileArgs, targetPath,
                 fileKind, ext, loader, Language, code, tree, root, stdout,
                 stderr, exitCode, uncaught, calls>>

\* lines 87-91: the while loop run until its condition fails
Traverse ==
  /\ pc = "traverse"
  /\ LoopCondition(queue, out)
  /\ LET st == Iterate(tree, LoopState, IterationBudget(tree))
     IN  /\ queue' = st.queue
         /\ out' = st.out
         /\ visited' = st.visited
  /\ UNCHANGED <<shVars, exampleVars, registry, thrown, pc, args, argIdx, jsonMode, fileArgs, targetPath,
                 fileKind, ext, loader, Language, code, tree, root, stdout,
                 stderr, exitCode, uncaught, calls>>

\* the JSON document with the file name in place of the path as given
PrintJsonBaseName ==
  /\ pc = "traverse"
  /\ ~LoopCondition(queue, out)
  /\ stdout' = Append(stdout, [file |-> BaseName(targetPath),
                               root |-> nodeSummary(tree, root),
                               nodes |-> out])
  /\ exitCode' = 0
  /\ pc' = "exited"
  /\ UNCHANGED <<shVars, exampleVars, registry, thrown, args, argIdx, jsonMode, fileArgs, targetPath, fileKind,
                 ext, loader, Language, code, tree, root, queue, out, stderr,
                 uncaught, calls, visited>>

\* line 93: the JSON document, then the script ends
PrintJson ==
  /\ pc = "traverse"
  /\ ~LoopCondition(queue, out)
  /\ stdout' = Append(stdout, [file |-> targetPath,
                               root |-> nodeSummary(tree, root),
                               nodes |-> out])
  /\ exitCode' = 0
  /\ pc' = "exited"
  /\ UNCHANGED <<shVars, exampleVars, registry, thrown, args, argIdx, jsonMode, fileArgs, targetPath, fileKind, ext,
                 loader, Language, code, tree, root, queue, out, stderr, uncaught,
                 calls, visited>>

Next ==
  \/ Start
  \/ ArgLoop
  \/ CheckFileArgs
  \/ CheckExists
  \/ Lookup
  \/ LoadGrammar
  \/ ReadFile
  \/ Parse
  \/ PrintText
  \/ StartTraversal
  \/ Visit
  \/ PrintJson

Spec == Init /\ [][Next]_vars

(***************************************************************************)
(* The same program run with --json, on source files whose trees are small *)
(* or at and beyond the cap of the traversal; the while loop is one step.  *)
(***************************************************************************)
InitJson == Init /\ JsonFlag \in {args[i] : i \in 1..Len(args)}

\* the trees the parser may answer with in this specification
JsonTrees == CapTrees \cup ExplicitTrees

ParseCap == ParseWith(JsonTrees)

NextJson ==
  \/ Start
  \/ ArgLoop
  \/ CheckFileArgs
  \/ CheckExists
  \/ Lookup
  \/ LoadGrammar
  \/ ReadFile
  \/ ParseCap
  \/ StartTraversal
  \/ Traverse
  \/ PrintJson

SpecJson == InitJson /\ [][NextJson]_vars

(***************************************************************************)
(* The same program run without --json, on source files whose trees are    *)
(* small or print about as many nodes as the cap of the JSON traversal.    *)
(***************************************************************************)
InitText == Init /\ JsonFlag \notin {args[i] : i \in 1..Len(args)}

\* the trees the parser may answer with in this specification
TextTrees == TextCapTrees \cup ExplicitTrees

ParseText == ParseWith(TextTrees)

NextText ==
  \/ Start
  \/ ArgLoop
  \/ CheckFileArgs
  \/ CheckExists
  \/ Lookup
  \/ LoadGrammar
  \/ ReadFile
  \/ ParseText
  \/ PrintText

SpecText == InitText /\ [][NextText]_vars

(***************************************************************************)
(* parse-cloned.sh.  Strings the script takes apart are sequences of       *)
(* one-character strings; the disk is the directory the script is started  *)
(* in, with .parsers and the clones under it.                              *)
(***************************************************************************)
\* line 19
PARSER_ROOT == <<".", "p", "a", "r", "s", "e", "r", "s">>

\* the directory the script is started in
StartDir == <<"/", "w">>

UpdateFlag == <<"-", "-", "u", "p", "d", "a", "t", "e">>

ListFlag == <<"-", "-", "l", "i", "s", "t">>

HelpFlags == { <<"-", "h">>, <<"-", "-", "h", "e", "l", "p">> }

\* targets given on the command line, the empty string among them
ShTargets ==
  { <<"a", ".", "j", "s">>,
    <<"d", "/", "a", ".", "t", "s">>,
    <<"/", "w", "/", "a", ".", "p", "y">>,
    <<"a", ".", "J", "S">>,
    <<"a", ".", "r", "s">>,
    <<"a", ".", "j", "s", "o", "n">>,
    <<"a">>,
    <<"j", "s">>,
    <<>> }

ShTokens == ShTargets \cup HelpFlags \cup {UpdateFlag, ListFlag}

\* "$@" of one run
ShArgLists == UNION {[1..n -> ShTokens] : n \in 0..MaxShArgs}

\* "${TARGET##*.}": what follows the last dot, the whole string without one
ShExt(target) ==
  LET d == LastIndexOf(target, ".")
  IN  IF d = 0 THEN target ELSE SubSeq(target, d + 1, Len(target))

\* the common start of the names of the grammar repositories
TreeSitterDash ==
  <<"t", "r", "e", "e", "-", "s", "i", "t", "t", "e", "r", "-">>

RepoJavaScript ==
  TreeSitterDash \o <<"j", "a", "v", "a", "s", "c", "r", "i", "p", "t">>

RepoPython == TreeSitterDash \o <<"p", "y", "t", "h", "o", "n">>

RepoJson == TreeSitterDash \o <<"j", "s", "o", "n">>

RepoRust == TreeSitterDash \o <<"r", "u", "s", "t">>

Repos == {RepoJavaScript, RepoPython, RepoJson, RepoRust}

\* lines 49-66: the case block; an empty dir stands for the default branch
RepoCase(e) ==
  CASE e \in { <<"j", "s">>, <<"j", "s", "x">>, <<"t", "s">>,
               <<"t", "s", "x">> } ->
         [url |-> "https://github.com/tree-sitter/tree-sitter-javascript.git",
          dir |-> RepoJavaScript]
    [] e = <<"p", "y">> ->
         [url |-> "https://github.com/tree-sitter/tree-sitter-python.git",
          dir |-> RepoPython]
    [] e = <<"j", "s", "o", "n">> ->
         [url |-> "https://github.com/tree-sitter/tree-sitter-json.git",
          dir |-> RepoJson]
    [] e = <<"r", "s">> ->
         [url |-> "https://github.com/tree-sitter/tree-sitter-rust.git",
          dir |-> RepoRust]
    [] OTHER -> [url |-> "", dir |-> <<>>]

\* a path made of a directory and a name in it
Slash(dir, name) == dir \o <<"/">> \o name

\* the file a path denotes for a process whose working directory is dir
Resolve(dir, p) ==
  IF p # <<>> /\ p[1] = "/" THEN p ELSE Slash(dir, p)

\* realpath can fail: a directory on the way to a relative path is missing
MayNotResolve(p) == p # <<>> /\ p[1] # "/" /\ LastIndexOf(p, "/") > 0

\* what a target names on disk
TargetKinds == {"missing", "file", "directory"}

\* a command the script ran: its name, its argument, its working directory
Cmd(name, arg, dir) == [cmd |-> name, arg |-> arg, cwd |-> dir]

\* exit N, after writing the given lines to stderr
ShExit(lines, status) ==
  /\ shErr' = shErr \o lines
  /\ shStatus' = status
  /\ shPc' = "exited"

\* the first statement of a run with the given arguments; the disk and the
\* histories over all runs are not touched
ShRunStart(a) ==
  /\ shPc = "start"
  /\ argv0 = a
  /\ argv = a
  /\ UPDATE = FALSE
  /\ LIST = FALSE
  /\ TARGET = <<>>
  /\ EXT = <<>>
  /\ LANG_REPO = ""
  /\ REPO_DIR = <<>>
  /\ CLONE_PATH = <<>>
  /\ cwd = StartDir
  /\ targetKind = Undefined
  /\ dirSeen = Undefined
  /\ cmds = <<>>
  /\ shOut = <<>>
  /\ shErr = <<>>
  /\ shStatus = -1

\* a first run, on a disk without clones; .parsers is missing or is a file
InitCloned ==
  /\ NodeIdle
  /\ ExamplesIdle
  /\ \E a \in ShArgLists : ShRunStart(a)
  /\ rootKind \in {"absent", "file"}
  /\ dirs = {}
  /\ runs = 1
  /\ cloneCount = [r \in Repos |-> 0]

\* lines 17-24: mkdir -p "$PARSER_ROOT"; under set -e its failure ends the run
ShStart ==
  /\ shPc = "start"
  /\ IF rootKind = "file"
     THEN /\ ShExit(<<Line("mkdir: cannot create directory: File exists",
                           PARSER_ROOT)>>, 1)
          /\ UNCHANGED rootKind
     ELSE /\ rootKind' = "dir"
          /\ shPc' = "args"
          /\ UNCHANGED <<shErr, shStatus>>
  /\ cmds' = Append(cmds, Cmd("mkdir -p", PARSER_ROOT, cwd))
  /\ UNCHANGED <<jsVars, exampleVars, argv0, argv, UPDATE, LIST, TARGET, EXT, LANG_REPO, REPO_DIR,
                 CLONE_PATH, cwd, dirs, targetKind, dirSeen, shOut, runs,
                 cloneCount>>

\* lines 26-36: one iteration of the loop over the positional parameters
ShArgLoop ==
  /\ shPc = "args"
  /\ argv # <<>>
  /\ LET arg == Head(argv)
     IN  CASE arg = UpdateFlag ->
                /\ UPDATE' = TRUE
                /\ argv' = Tail(argv)
                /\ UNCHANGED <<LIST, TARGET, shOut, shErr, shStatus, shPc>>
           [] arg = ListFlag ->
                /\ LIST' = TRUE
                /\ argv' = Tail(argv)
                /\ UNCHANGED <<UPDATE, TARGET, shOut, shErr, shStatus, shPc>>
           [] arg \in HelpFlags ->
                /\ shOut' = Append(shOut, Line("header comment", <<>>))
                /\ shStatus' = 0
                /\ shPc' = "exited"
                /\ UNCHANGED <<UPDATE, LIST, TARGET, argv, shErr>>
           [] OTHER ->
                IF TARGET = <<>>
                THEN /\ TARGET' = arg
                     /\ argv' = Tail(argv)
                     /\ UNCHANGED <<UPDATE, LIST, shOut, shErr, shStatus, shPc>>
                ELSE /\ ShExit(<<Line("Extra argument: ", arg)>>, 1)
                     /\ UNCHANGED <<UPDATE, LIST, TARGET, argv, shOut>>
  /\ UNCHANGED <<jsVars, exampleVars, argv0, EXT, LANG_REPO, REPO_DIR, CLONE_PATH, cwd, rootKind,
                 dirs, targetKind, dirSeen, cmds, runs, cloneCount>>

\* the step after the loop with the --list flag left unread
ShListIgnored ==
  /\ shPc = "args"
  /\ argv = <<>>
  /\ shPc' = "target"
  /\ UNCHANGED <<jsVars, exampleVars, argv0, argv, UPDATE, LIST, TARGET, EXT, LANG_REPO,
                 REPO_DIR, CLONE_PATH, cwd, rootKind, dirs, targetKind,
                 dirSeen, cmds, shOut, shErr, shStatus, runs, cloneCount>>

\* lines 38-40: --list prints the clones and ends the run
ShList ==
  /\ shPc = "args"
  /\ argv = <<>>
  /\ IF LIST
     THEN /\ shOut' = shOut \o <<Line("Cloned grammar repositories:", <<>>),
                                 Line("ls -1", dirs)>>
          /\ cmds' = Append(cmds, Cmd("ls -1", PARSER_ROOT, cwd))
          /\ shStatus' = 0
          /\ shPc' = "exited"
     ELSE /\ shPc' = "target"
          /\ UNCHANGED <<shOut, cmds, shStatus>>
  /\ UNCHANGED <<jsVars, exampleVars, argv0, argv, UPDATE, LIST, TARGET, EXT, LANG_REPO, REPO_DIR,
                 CLONE_PATH, cwd, rootKind, dirs, targetKind, dirSeen, shErr,
                 runs, cloneCount>>

\* the target checks without the test for a regular file
ShCheckTargetGivenOnly ==
  /\ shPc = "target"
  /\ IF TARGET = <<>>
     THEN /\ ShExit(<<Line("Error: no target file provided", <<>>)>>, 1)
          /\ UNCHANGED targetKind
     ELSE /\ \E kind \in TargetKinds : targetKind' = kind
          /\ shPc' = "dispatch"
          /\ UNCHANGED <<shErr, shStatus>>
  /\ UNCHANGED <<jsVars, exampleVars, argv0, argv, UPDATE, LIST, TARGET, EXT, LANG_REPO,
                 REPO_DIR, CLONE_PATH, cwd, rootKind, dirs, dirSeen, cmds,
                 shOut, runs, cloneCount>>

\* lines 42-43: a target was given and names a regular file
ShCheckTarget ==
  /\ shPc = "target"
  /\ IF TARGET = <<>>
     THEN /\ ShExit(<<Line("Error: no target file provided", <<>>)>>, 1)
          /\ UNCHANGED targetKind
     ELSE \E kind \in TargetKinds :
            /\ targetKind' = kind
            /\ IF kind # "file"
               THEN ShExit(<<Line("Error: file not found: ", TARGET)>>, 1)
               ELSE shPc' = "dispatch" /\ UNCHANGED <<shErr, shStatus>>
  /\ UNCHANGED <<jsVars, exampleVars, argv0, argv, UPDATE, LIST, TARGET, EXT, LANG_REPO, REPO_DIR,
                 CLONE_PATH, cwd, rootKind, dirs, dirSeen, cmds, shOut, runs,
                 cloneCount>>

\* lines 45-66: the extension and the repository of its grammar
ShDispatch ==
  /\ shPc = "dispatch"
  /\ EXT' = ShExt(TARGET)
  /\ LET repo == RepoCase(EXT')
     IN  IF repo.dir = <<>>
         THEN /\ ShExit(<<Line("Unsupported extension: .", EXT'),
                          Line("Edit scripts/parse-cloned.sh to add a repo mapping.",
                               <<>>)>>, 2)
              /\ UNCHANGED <<LANG_REPO, REPO_DIR>>
         ELSE /\ LANG_REPO' = repo.url
              /\ REPO_DIR' = repo.dir
              /\ shPc' = "clone"
              /\ UNCHANGED <<shErr, shStatus>>
  /\ UNCHANGED <<jsVars, exampleVars, argv0, argv, UPDATE, LIST, TARGET, CLONE_PATH, cwd, rootKind,
                 dirs, targetKind, dirSeen, cmds, shOut, runs, cloneCount>>

\* the clone step run whether or not the directory exists
ShCloneUnconditional ==
  /\ shPc = "clone"
  /\ CLONE_PATH' = Slash(PARSER_ROOT, REPO_DIR)
  /\ dirSeen' = (IF REPO_DIR \in dirs THEN "present" ELSE "absent")
  /\ cmds' = Append(cmds, Cmd("git clone --depth 1", CLONE_PATH', cwd))
  /\ \/ /\ dirs' = dirs \cup {REPO_DIR}
        /\ cloneCount' = [cloneCount EXCEPT ![REPO_DIR] = @ + 1]
        /\ shErr' = Append(shErr, Line("Cloning ", CLONE_PATH'))
        /\ shPc' = "update"
        /\ UNCHANGED shStatus
     \/ /\ ShExit(<<Line("Cloning ", CLONE_PATH'),
                    Line("fatal: unable to access", LANG_REPO)>>, 128)
        /\ UNCHANGED <<dirs, cloneCount>>
  /\ UNCHANGED <<jsVars, exampleVars, argv0, argv, UPDATE, LIST, TARGET, EXT, LANG_REPO, REPO_DIR,
                 cwd, rootKind, targetKind, shOut, runs>>

\* lines 68-72: clone the repository unless its directory is there; under
\* set -e a failing git clone ends the run with git's status
ShClone ==
  /\ shPc = "clone"
  /\ CLONE_PATH' = Slash(PARSER_ROOT, REPO_DIR)
  /\ dirSeen' = (IF REPO_DIR \in dirs THEN "present" ELSE "absent")
  /\ IF dirSeen' = "absent"
     THEN /\ cmds' = Append(cmds, Cmd("git clone --depth 1", CLONE_PATH', cwd))
          /\ \/ /\ dirs' = dirs \cup {REPO_DIR}
                /\ cloneCount' = [cloneCount EXCEPT ![REPO_DIR] = @ + 1]
                /\ shErr' = Append(shErr, Line("Cloning ", CLONE_PATH'))
                /\ shPc' = "update"
                /\ UNCHANGED shStatus
             \/ /\ ShExit(<<Line("Cloning ", CLONE_PATH'),
                            Line("fatal: unable to access", LANG_REPO)>>, 128)
                /\ UNCHANGED <<dirs, cloneCount>>
     ELSE /\ shPc' = "update"
          /\ UNCHANGED <<cmds, dirs, cloneCount, shErr, shStatus>>
  /\ UNCHANGED <<jsVars, exampleVars, argv0, argv, UPDATE, LIST, TARGET, EXT, LANG_REPO, REPO_DIR,
                 cwd, rootKind, targetKind, shOut, runs>>

\* an update step without || true: a failing pull ends the run
ShUpdateAborts ==
  /\ shPc = "update"
  /\ IF UPDATE
     THEN /\ cmds' = Append(cmds, Cmd("git pull --ff-only", <<>>,
                                      Slash(StartDir, CLONE_PATH)))
          /\ \/ /\ shErr' = Append(shErr, Line("Updating ", REPO_DIR))
                /\ shPc' = "generate"
                /\ UNCHANGED shStatus
             \/ ShExit(<<Line("Updating ", REPO_DIR),
                         Line("fatal: Not possible to fast-forward", <<>>)>>, 1)
     ELSE /\ shPc' = "generate"
          /\ UNCHANGED <<cmds, shErr, shStatus>>
  /\ UNCHANGED <<jsVars, exampleVars, argv0, argv, UPDATE, LIST, TARGET, EXT, LANG_REPO,
                 REPO_DIR, CLONE_PATH, cwd, rootKind, dirs, targetKind,
                 dirSeen, shOut, runs, cloneCount>>

\* lines 74-77: with --update, git pull in a subshell; its failure is
\* swallowed by || true
ShUpdate ==
  /\ shPc = "update"
  /\ IF UPDATE
     THEN /\ cmds' = Append(cmds, Cmd("git pull --ff-only", <<>>,
                                      Slash(StartDir, CLONE_PATH)))
          /\ \E pulled \in BOOLEAN :
               shErr' = shErr \o <<Line("Updating ", REPO_DIR)>> \o
                        (IF pulled THEN <<>>
                         ELSE <<Line("fatal: Not possible to fast-forward", <<>>)>>)
     ELSE UNCHANGED <<cmds, shErr>>
  /\ shPc' = "generate"
  /\ UNCHANGED <<jsVars, exampleVars, argv0, argv, UPDATE, LIST, TARGET, EXT, LANG_REPO, REPO_DIR,
                 CLONE_PATH, cwd, rootKind, dirs, targetKind, dirSeen, shOut,
                 shStatus, runs, cloneCount>>

\* lines 80-82: in the subshell, cd to the clone and generate the parser: a
\* quiet attempt, then a loud one, whose failure ends the run under set -e
ShGenerate ==
  /\ shPc = "generate"
  /\ cwd' = Slash(StartDir, CLONE_PATH)
  /\ LET quiet == Cmd("tree-sitter generate >/dev/null 2>&1", <<>>, cwd')
         loud == Cmd("tree-sitter generate", <<>>, cwd')
     IN  \/ /\ cmds' = Append(cmds, quiet)
            /\ shPc' = "parse"
            /\ UNCHANGED <<shErr, shStatus>>
         \/ /\ cmds' = cmds \o <<quiet, loud>>
            /\ shPc' = "parse"
            /\ UNCHANGED <<shErr, shStatus>>
         \/ /\ cmds' = cmds \o <<quiet, loud>>
            /\ ShExit(<<Line("tree-sitter generate failed", <<>>)>>, 1)
  /\ UNCHANGED <<jsVars, exampleVars, argv0, argv, UPDATE, LIST, TARGET, EXT, LANG_REPO, REPO_DIR,
                 CLONE_PATH, rootKind, dirs, targetKind, dirSeen, shOut, runs,
                 cloneCount>>

\* line 83: still in the subshell and in the clone, realpath "$TARGET" and
\* tree-sitter parse on what it printed (nothing, when realpath failed); the
\* status of tree-sitter parse is the status of the run
ShParse ==
  /\ shPc = "parse"
  /\ \E path \in {Resolve(cwd, TARGET)} \cup
                 (IF MayNotResolve(TARGET) THEN {<<>>} ELSE {}) :
       /\ cmds' = cmds \o <<Cmd("realpath", TARGET, cwd),
                            Cmd("tree-sitter parse", path, cwd)>>
       /\ shOut' = Append(shOut, Line("tree of ", path))
  /\ \E status \in {0, 1} : shStatus' = status
  /\ shPc' = "exited"
  /\ UNCHANGED <<jsVars, exampleVars, argv0, argv, UPDATE, LIST, TARGET, EXT, LANG_REPO, REPO_DIR,
                 CLONE_PATH, cwd, rootKind, dirs, targetKind, dirSeen, shErr,
                 runs, cloneCount>>

\* the process is gone and its variables with it; the disk stays
ShEnd ==
  /\ shPc = "exited"
  /\ runs < MaxRuns
  /\ shPc' = "ended"
  /\ argv0' = <<>>
  /\ argv' = <<>>
  /\ UPDATE' = FALSE
  /\ LIST' = FALSE
  /\ TARGET' = <<>>
  /\ EXT' = <<>>
  /\ LANG_REPO' = ""
  /\ REPO_DIR' = <<>>
  /\ CLONE_PATH' = <<>>
  /\ cwd' = StartDir
  /\ targetKind' = Undefined
  /\ dirSeen' = Undefined
  /\ cmds' = <<>>
  /\ shOut' = <<>>
  /\ shErr' = <<>>
  /\ shStatus' = -1
  /\ UNCHANGED <<jsVars, exampleVars, rootKind, dirs, runs, cloneCount>>

\* the script is started again, in the same directory
ShInvoke ==
  /\ shPc = "ended"
  /\ shPc' = "start"
  /\ \E a \in ShArgLists : argv0' = a /\ argv' = a
  /\ runs' = runs + 1
  /\ UNCHANGED <<jsVars, exampleVars, UPDATE, LIST, TARGET, EXT, LANG_REPO, REPO_DIR,
                 CLONE_PATH, cwd, rootKind, dirs, targetKind, dirSeen, cmds,
                 shOut, shErr, shStatus, cloneCount>>

NextCloned ==
  \/ ShStart
  \/ ShArgLoop
  \/ ShList
  \/ ShCheckTarget
  \/ ShDispatch
  \/ ShClone
  \/ ShUpdate
  \/ ShGenerate
  \/ ShParse
  \/ ShEnd
  \/ ShInvoke

SpecCloned == InitCloned /\ [][NextCloned]_vars

(***************************************************************************)
(* The simple_calc grammar (tutorials/05-first-parser/examples/grammar.js). *)
(* The text is a sequence of tokens; whitespace and comments are extras    *)
(* and leave no token.  Every rule of the grammar has a name without a     *)
(* leading underscore, so every rule applied leaves a node of its name.    *)
(***************************************************************************)
\* the most operators in one expression of the texts parsed
MaxOperators == 2

\* lines 65-73: the tokens that are named leaves
Operands == {"number", "identifier"}

\* lines 41-44: the table of binary_expression
PrecedenceTable ==
  << [precedence |-> 1, operators |-> {"+", "-"}],
     [precedence |-> 2, operators |-> {"*", "/"}] >>

BinaryOperators ==
  UNION {PrecedenceTable[i].operators : i \in DOMAIN PrecedenceTable}

\* the precedence prec.left gives the rule of the operator
Precedence(operator) ==
  LET row == CHOOSE i \in DOMAIN PrecedenceTable :
               operator \in PrecedenceTable[i].operators
  IN  PrecedenceTable[row].precedence

\* a token as a leaf of the tree
Leaf(token) == Node(token, <<>>)

\* field(name, rule)
Field(name, n) == [n EXCEPT !.field = name]

\* lines 32-37: the members of the choice of expression
ExpressionMembers ==
  {"identifier", "number", "parenthesized_expression", "binary_expression"}

\* lines 14-17: the members of the choice of statement; variable_declaration
\* does not occur in the texts parsed here
StatementMembers == {"expression_statement"}

\* operand (operator operand)^n
RECURSIVE Flat(_)
Flat(n) ==
  IF n = 0 THEN {<<a>> : a \in Operands}
  ELSE {e \o <<o, a>> : e \in Flat(n - 1), o \in BinaryOperators,
                        a \in Operands}

\* expressions with one pair of parentheses
Parenthesized ==
  {<<"number", o1, "(", "number", o2, "number", ")">> :
     o1 \in BinaryOperators, o2 \in BinaryOperators}
  \cup
  {<<"(", "number", o1, "number", ")", o2, "number">> :
     o1 \in BinaryOperators, o2 \in BinaryOperators}

Expressions == UNION {Flat(n) : n \in 0..MaxOperators} \cup Parenthesized

\* the texts parsed: no statement, one expression statement, or two
Programs ==
  {<<>>, <<"number", ";", "identifier", ";">>}
  \cup {e \o <<";">> : e \in Expressions}

\* the last k entries of a sequence, and the sequence without them
Last(s, k) == SubSeq(s, Len(s) - k + 1, Len(s))

Pop(s, k) == SubSeq(s, 1, Len(s) - k)

\* the types of the last k nodes of the stack
TopTypes(k) ==
  IF Len(stack) < k THEN <<>>
  ELSE [i \in 1..k |-> stack[Len(stack) - k + i].type]

\* the token the parser looks at
LookAhead == IF tokens = <<>> THEN "end" ELSE Head(tokens)

\* the conflict between reducing expression operator expression and
\* shifting the next operator: the higher precedence wins, and on equal
\* precedence prec.left reduces
ShiftWins(operator, next) ==
  /\ next \in BinaryOperators
  /\ Precedence(next) > Precedence(operator)

CanReduceExpression ==
  Len(stack) >= 1 /\ stack[Len(stack)].type \in ExpressionMembers

CanReduceBinary ==
  /\ TopTypes(3) \in {<<"expression", o, "expression">> :
                        o \in BinaryOperators}
  /\ ~ShiftWins(stack[Len(stack) - 1].type, LookAhead)

CanReduceParenthesized == TopTypes(3) = <<"(", "expression", ")">>

CanReduceExpressionStatement == TopTypes(2) = <<"expression", ";">>

CanReduceStatement ==
  Len(stack) >= 1 /\ stack[Len(stack)].type \in StatementMembers

CanReduce ==
  \/ CanReduceExpression
  \/ CanReduceBinary
  \/ CanReduceParenthesized
  \/ CanReduceExpressionStatement
  \/ CanReduceStatement

\* the stack with its last k nodes replaced by one node
Reduce(k, n) ==
  /\ stack' = Append(Pop(stack, k), n)
  /\ UNCHANGED <<jsVars, shVars, cacheVars, calcPc, source, tokens, parsed>>

\* parser.parse(text) is called
CalcStart(text) ==
  /\ calcPc = "parsing"
  /\ source = text
  /\ tokens = text
  /\ stack = <<>>
  /\ parsed = Node("none", <<>>)

InitCalc ==
  /\ NodeIdle
  /\ ShellIdle
  /\ CacheIdle
  /\ \E text \in Programs : CalcStart(text)

\* the next token goes on the stack
CalcShift ==
  /\ calcPc = "parsing"
  /\ tokens # <<>>
  /\ ~CanReduce
  /\ stack' = Append(stack, Leaf(Head(tokens)))
  /\ tokens' = Tail(tokens)
  /\ UNCHANGED <<jsVars, shVars, cacheVars, calcPc, source, parsed>>

\* lines 32-37: expression
CalcExpression ==
  /\ calcPc = "parsing"
  /\ CanReduceExpression
  /\ Reduce(1, Node("expression", Last(stack, 1)))

\* lines 40-55: binary_expression
CalcBinaryExpression ==
  /\ calcPc = "parsing"
  /\ CanReduceBinary
  /\ LET top == Last(stack, 3)
     IN  Reduce(3, Node("binary_expression",
                        << Field("left", top[1]),
                           Field("operator", top[2]),
                           Field("right", top[3]) >>))

\* lines 58-62: parenthesized_expression
CalcParenthesizedExpression ==
  /\ calcPc = "parsing"
  /\ CanReduceParenthesized
  /\ Reduce(3, Node("parenthesized_expression", Last(stack, 3)))

\* line 29: expression_statement
CalcExpressionStatement ==
  /\ calcPc = "parsing"
  /\ CanReduceExpressionStatement
  /\ Reduce(2, Node("expression_statement", Last(stack, 2)))

\* lines 14-17: statement
CalcStatement ==
  /\ calcPc = "parsing"
  /\ CanReduceStatement
  /\ Reduce(1, Node("statement", Last(stack, 1)))

\* line 11: source_file, at the end of the text
CalcSourceFile ==
  /\ calcPc = "parsing"
  /\ tokens = <<>>
  /\ ~CanReduce
  /\ \A i \in 1..Len(stack) : stack[i].type = "statement"
  /\ parsed' = Node("source_file", stack)
  /\ calcPc' = "done"
  /\ UNCHANGED <<jsVars, shVars, cacheVars, source, tokens, stack>>

NextCalc ==
  \/ CalcShift
  \/ CalcExpression
  \/ CalcBinaryExpression
  \/ CalcParenthesizedExpression
  \/ CalcExpressionStatement
  \/ CalcStatement
  \/ CalcSourceFile

SpecCalc == InitCalc /\ [][NextCalc]_vars

(***************************************************************************)
(* The OptimizedParser class (unnamed/part_004, lines 769-799).  Texts are *)
(* numbered in the order in which the cache first stores them, so that the *)
(* keys of the cache are 1..parseCache.size; a call names the first key,   *)
(* or a text that is not a key.                                            *)
(***************************************************************************)
\* line 793
CACHE_LIMIT == 100

\* language objects parser.setLanguage accepts
Languages == {"LanguageA", "LanguageB"}

\* a value parser.setLanguage throws on
InvalidLanguage == "invalid"

LanguageArgs == Languages \cup {InvalidLanguage}

\* the texts a call of parse may name
TextArgs == {1, Len(parseCache) + 1}

\* new OptimizedParser()
InitCache ==
  /\ NodeIdle
  /\ ShellIdle
  /\ CalcIdle
  /\ opPc = "ready"
  /\ Constructed

\* lines 776-782
setLanguage(l) ==
  /\ opPc = "ready"
  /\ IF language # l
     THEN /\ language' = l
          /\ IF l = InvalidLanguage
             THEN \* this.parser.setLanguage throws; line 780 is not reached
                  /\ lastCall' = [op |-> "setLanguage", arg |-> l,
                                  changed |-> TRUE, threw |-> TRUE]
                  /\ UNCHANGED <<parserLanguage, parseCache>>
             ELSE /\ parserLanguage' = l
                  /\ parseCache' = <<>>
                  /\ lastCall' = [op |-> "setLanguage", arg |-> l,
                                  changed |-> TRUE, threw |-> FALSE]
     ELSE /\ lastCall' = [op |-> "setLanguage", arg |-> l,
                          changed |-> FALSE, threw |-> FALSE]
          /\ UNCHANGED <<language, parserLanguage, parseCache>>
  /\ result' = NoResult
  /\ UNCHANGED <<jsVars, shVars, calcVars, opPc>>

\* lines 784-798; hasTree: the second argument is a tree
parse(text, hasTree) ==
  /\ opPc = "ready"
  /\ IF text \in DOMAIN parseCache /\ ~hasTree
     THEN /\ result' = parseCache[text]
          /\ lastCall' = [op |-> "parse", arg |-> text, changed |-> FALSE,
                          threw |-> FALSE]
          /\ UNCHANGED parseCache
     ELSE \E throws \in BOOLEAN :
            /\ throws => parserLanguage = Null
            /\ IF throws
               THEN \* this.parser.parse throws without a language
                    /\ result' = NoResult
                    /\ lastCall' = [op |-> "parse", arg |-> text,
                                    changed |-> FALSE, threw |-> TRUE]
                    /\ UNCHANGED parseCache
               ELSE /\ result' = Tree(text, parserLanguage)
                    /\ lastCall' = [op |-> "parse", arg |-> text,
                                    changed |-> FALSE, threw |-> FALSE]
                    /\ IF ~hasTree /\ Len(parseCache) < CACHE_LIMIT
                       THEN parseCache' =
                              Append(parseCache, Tree(text, parserLanguage))
                       ELSE UNCHANGED parseCache
  /\ UNCHANGED <<jsVars, shVars, calcVars, opPc, language, parserLanguage>>

SetLanguageCall == \E l \in LanguageArgs : setLanguage(l)

ParseCall == \E text \in TextArgs, hasTree \in BOOLEAN : parse(text, hasTree)

NextCache == SetLanguageCall \/ ParseCall

SpecCache == InitCache /\ [][NextCache]_vars

(***************************************************************************)
(* Properties.                                                             *)
(***************************************************************************)
Range(s) == {s[i] : i \in 1..Len(s)}

Min(a, b) == IF a <= b THEN a ELSE b

\* the run has printed its JSON document and ended
JsonDone == pc = "exited" /\ jsonMode /\ exitCode = 0 /\ Len(stdout) = 1

\* breadth-first order, defined apart from the queue: a node comes before
\* another when it is nearer the root or, at equal depth, earlier in the
\* document
Before(t, a, b) ==
  \/ DepthOf(t, a) < DepthOf(t, b)
  \/ DepthOf(t, a) = DepthOf(t, b) /\ a < b

\* breadth-first order level by level: a level, then the children of its
\* nodes in order
RECURSIVE LevelsFrom(_, _)
LevelsFrom(t, level) ==
  IF level = <<>> THEN <<>>
  ELSE LET RECURSIVE Kids(_)
           Kids(i) ==
             IF i > Len(level) THEN <<>>
             ELSE ChildrenOf(t, level[i]) \o Kids(i + 1)
       IN  level \o LevelsFrom(t, Kids(1))

LevelOrder(t) == LevelsFrom(t, <<RootNode(t)>>)

\* C1: in JSON mode the list of summaries never holds more than 2000
\* entries, at any step of the traversal and in the printed document
C1_NodesWithinCap ==
  /\ Len(out) <= NODE_CAP
  /\ \A i \in 1..Len(stdout) : Len(stdout[i].nodes) <= NODE_CAP

\* a tree of more than 2000 nodes was printed with the queue not yet empty
C1_Witness ==
  /\ JsonDone
  /\ tree.size > NODE_CAP
  /\ Len(stdout[1].nodes) = NODE_CAP
  /\ Len(queue) > 0

\* C2: for a tree of at most 2000 nodes the printed nodes array has exactly
\* one entry per node: every node is summarised, none twice
C2_OneEntryPerNode ==
  (JsonDone /\ tree.size <= NODE_CAP) =>
    LET nodes == stdout[1].nodes
    IN  /\ Len(nodes) = tree.size
        /\ Len(visited) = Len(nodes)
        /\ \A i \in 1..Len(nodes) : nodes[i] = nodeSummary(tree, visited[i])
        /\ Range(visited) = NodesOf(tree)

\* a tree of exactly 2000 nodes, not a chain, was printed in full
C2_Witness ==
  /\ JsonDone
  /\ tree.size = NODE_CAP
  /\ tree.shape = "fork"
  /\ Len(stdout[1].nodes) = NODE_CAP

\* C3: the printed nodes array is in breadth-first order, root first,
\* children in child-index order; for a tree of more than 2000 nodes it is
\* the first 2000 nodes of that order
C3_BreadthFirstOrder ==
  JsonDone =>
    LET nodes == stdout[1].nodes
        k == Len(nodes)
    IN  /\ k = Min(tree.size, NODE_CAP)
        /\ Len(visited) = k
        /\ \A i \in 1..k : nodes[i] = nodeSummary(tree, visited[i])
        /\ visited[1] = RootNode(tree)
        /\ \A i \in 1..(k - 1) : Before(tree, visited[i], visited[i + 1])
        /\ Cardinality({u \in NodesOf(tree) : ~Before(tree, visited[k], u)}) = k
        /\ tree.shape = "explicit" => visited = LevelOrder(tree)

\* a tree of more than 2000 nodes whose breadth-first order is not its
\* document order was printed
C3_Witness ==
  /\ JsonDone
  /\ tree.size > NODE_CAP
  /\ tree.shape = "fork"
  /\ visited[3] # 2
  /\ Len(stdout[1].nodes) = NODE_CAP

\* the arguments other than --json, in the order given
PathArgs(a) == SelectSeq(a, LAMBDA x : x # JsonFlag)

\* the extension of a path is no key of the registry
Unsupported(p) == ToLowerCase(ExtName(p)) \notin DOMAIN LANGUAGE_LOADERS

\* the run ended at the existence check
NotFoundRun == pc = "exited" /\ fileKind = "missing"

\* the run ended at the registry lookup
UnsupportedRun ==
  /\ pc = "exited"
  /\ fileKind \notin {Undefined, "missing"}
  /\ Unsupported(targetPath)

\* the run ended because the grammar loader threw
LoadFailureRun ==
  /\ pc = "exited"
  /\ Len(calls) > 0
  /\ calls[Len(calls)] = "loader"
  /\ thrown # Undefined

\* C4: the printed JSON object has exactly the fields file, root and nodes;
\* file is the path argument as given and root is the summary (type, named
\* flag, start and end position, child count) of the root node of the tree
C4_JsonDocument ==
  JsonDone =>
    LET doc == stdout[1]
    IN  /\ DOMAIN doc = {"file", "root", "nodes"}
        /\ doc.file = PathArgs(args)[1]
        /\ doc.root = [type |-> NodeType(tree, RootNode(tree)),
                       named |-> NodeIsNamed(tree, RootNode(tree)),
                       startPosition |-> NodeStart(tree, RootNode(tree)),
                       endPosition |-> NodeEnd(tree, RootNode(tree)),
                       childCount |-> ChildCount(tree, RootNode(tree))]

\* a JSON document was printed for a path with a directory part and a tree
\* of several nodes
C4_Witness ==
  /\ JsonDone
  /\ stdout[1].file = <<"d", "/", "a", ".", "j", "s">>
  /\ stdout[1].root.childCount > 1

\* C5: for a file whose extension is no key of the registry (or that has no
\* extension) no loader is ever invoked, the file is not read, nothing is
\* parsed, and the run ends with the unsupported-language error
C5_UnsupportedNeverLoads ==
  (targetPath # <<>> /\ Unsupported(targetPath)) =>
    /\ Range(calls) \cap {"loader", "readFileSync", "parse"} = {}
    /\ Language = Undefined
    /\ code = Undefined
    /\ tree = NoTree
    /\ stdout = <<>>
    /\ ~uncaught
    /\ UnsupportedRun =>
         /\ exitCode = EXIT_UNSUPPORTED
         /\ stderr =
              << Line("No language configured for extension: ",
                      ToLowerCase(ExtName(targetPath))),
                 Line("Edit scripts/parse.js to add one.", <<>>) >>

\* an existing file without extension ended the run at the lookup
C5_Witness ==
  /\ UnsupportedRun
  /\ targetPath = <<"a">>
  /\ fileKind = "file"
  /\ calls = <<"existsSync", "lookup">>

\* C6: the exit status for an unsupported extension is 2, the one for a
\* missing source file is 1: both non-zero and different from each other
C6_UnsupportedStatusDistinct ==
  /\ UnsupportedRun => exitCode = 2
  /\ NotFoundRun => exitCode = 1

\* a run ended with the unsupported-extension status
C6_Witness ==
  /\ UnsupportedRun
  /\ targetPath = <<"a", ".", "r", "s">>
  /\ exitCode # 0

C8_LoadFailureHandled ==
  LoadFailureRun =>
    /\ ~uncaught
    /\ exitCode # 0
    /\ thrown \in LoaderErrors
    /\ stderr =
         << Line("Failed to load parser package for <ext>. Did you install it?",
                 ToLowerCase(ExtName(targetPath))),
            Line(thrown, <<>>) >>
    /\ Range(calls) \cap {"readFileSync", "parse"} = {}
    /\ code = Undefined
    /\ tree = NoTree
    /\ stdout = <<>>

\* the loader for .py threw "Cannot find module"
C8_Witness ==
  /\ LoadFailureRun
  /\ thrown = "Cannot find module"
  /\ ext = <<".", "p", "y">>

\* C9: when the path names no existing file the run ends at once with the
\* file-not-found error and a non-zero status; no lookup, load or parse
C9_NotFound ==
  fileKind = "missing" =>
    /\ pc = "exited"
    /\ exitCode # 0
    /\ ~uncaught
    /\ stderr =
         <<Line("Error: File not found: ", PathArgs(args)[1])>> \o UsageLines
    /\ calls = <<"existsSync">>
    /\ ext = <<>>
    /\ loader = Undefined
    /\ Language = Undefined
    /\ code = Undefined
    /\ tree = NoTree
    /\ stdout = <<>>

\* a run on a missing path with a supported extension ended
C9_Witness ==
  /\ NotFoundRun
  /\ targetPath = <<"a", ".", "j", "s">>
  /\ exitCode = 1

\* C10 as claimed: a run that gets as far as reading a path that exists but
\* cannot be read (a directory, a file without read permission) ends in the
\* handled file-not-found error, never by an exception nothing catches
C10_Original ==
  (/\ pc = "exited"
   /\ fileKind \in {"directory", "unreadable"}
   /\ "readFileSync" \in Range(calls)) =>
    /\ ~uncaught
    /\ exitCode # 0
    /\ \E i \in 1..Len(stderr) : stderr[i].text = "Error: File not found: "

\* the argument list is empty or, without its --json flags, does not hold
\* exactly one argument
UsageErrorArgs == Len(args) = 0 \/ Len(PathArgs(args)) # 1

\* C11: for an argument list that is empty or, after removing every --json,
\* does not hold exactly one argument, the run does nothing but report the
\* usage error and exit with a non-zero status: no existence check, no
\* registry lookup, no grammar load, no read, no parse, no output
C11_UsageErrorFirst ==
  UsageErrorArgs =>
    /\ pc \in {"start", "argloop", "exited"}
    /\ calls = <<>>
    /\ targetPath = <<>>
    /\ fileKind = Undefined
    /\ ext = <<>>
    /\ loader = Undefined
    /\ Language = Undefined
    /\ code = Undefined
    /\ tree = NoTree
    /\ stdout = <<>>
    /\ pc = "exited" =>
         /\ exitCode # 0
         /\ ~uncaught
         /\ stderr =
              (IF Len(args) = 0 THEN <<>>
               ELSE <<Line("Error: Provide exactly one source file", <<>>)>>)
              \o UsageLines

\* a run given two paths ended with the usage error
C11_Witness ==
  /\ pc = "exited"
  /\ args = << <<"a", ".", "j", "s">>, <<"a", ".", "p", "y">> >>
  /\ exitCode = EXIT_USAGE
  /\ Len(stderr) = 3

\* the same tree without its ERROR marks
Healthy(t) == [t EXCEPT !.errors = {}]

\* the steps of a run that gets as far as a tree
StepsToTree == <<"existsSync", "lookup", "loader", "readFileSync", "parse">>

\* C12: a tree with ERROR nodes is rendered by the same steps as a tree
\* without: nothing is written to stderr, the exit status is 0, text mode
\* prints the whole S-expression with its ERROR nodes, JSON mode prints one
\* summary per node, which differs from the summary in the error-free tree
\* only for the ERROR nodes themselves
C12_ErrorTreesRendered ==
  (tree # NoTree /\ tree.errors # {}) =>
    /\ pc \in {"render", "traverse", "exited"}
    /\ calls = StepsToTree
    /\ ~uncaught
    /\ stderr = <<>>
    /\ pc = "exited" =>
         /\ exitCode = 0
         /\ Len(stdout) = 1
         /\ ~jsonMode =>
              /\ stdout[1] = SExpr(tree, RootNode(tree))
              /\ "ERROR" \in Range(stdout[1])
              /\ Len(stdout[1]) >= Len(SExpr(Healthy(tree), RootNode(tree)))
         /\ jsonMode =>
              LET nodes == stdout[1].nodes
              IN  /\ Len(nodes) = tree.size
                  /\ visited = LevelOrder(tree)
                  /\ \A i \in 1..Len(nodes) :
                       LET twin == nodeSummary(Healthy(tree), visited[i])
                       IN  /\ nodes[i].startPosition = twin.startPosition
                           /\ nodes[i].endPosition = twin.endPosition
                           /\ nodes[i].childCount = twin.childCount
                           /\ nodes[i].type =
                                (IF visited[i] \in tree.errors
                                 THEN "ERROR" ELSE twin.type)

\* text mode printed a tree of three nodes, one of them an ERROR node, and
\* the run ended with status 0
C12_Witness ==
  /\ pc = "exited"
  /\ ~jsonMode
  /\ tree.size = 3
  /\ tree.errors = {2}
  /\ exitCode = 0
  /\ "ERROR" \in Range(stdout[1])

\* the run ended because parser.setLanguage or parser.parse threw
ParseFailureRun ==
  /\ pc = "exited"
  /\ Len(calls) > 0
  /\ calls[Len(calls)] = "parse"
  /\ thrown \in ParseErrors

\* C13 as claimed: when the parse call throws, the script handles the
\* failure: the run does not end by an exception nothing caught, the error
\* is reported, the exit status is non-zero and nothing is written to stdout
C13_Original ==
  ParseFailureRun =>
    /\ ~uncaught
    /\ Len(stderr) > 0
    /\ exitCode # 0
    /\ stdout = <<>>

\* the grammar identifiers of the registry
GrammarIds == {LANGUAGE_LOADERS[e] : e \in DOMAIN LANGUAGE_LOADERS}

\* how often the load step of a grammar identifier has run in this process
LoadSteps(id) ==
  IF loader = id
  THEN Cardinality({i \in 1..Len(calls) : calls[i] = "loader"})
  ELSE 0

C15_RegistryFixed ==
  /\ registry = LANGUAGE_LOADERS
  /\ \A e \in DOMAIN registry : registry[e] \in GrammarIds
  /\ "lookup" \in Range(calls) =>
       loader = (IF ext \in DOMAIN LANGUAGE_LOADERS
                 THEN LANGUAGE_LOADERS[ext] ELSE Undefined)

\* a run looked up .tsx, used the grammar and ended with the registry as it
\* was
C15_Witness ==
  /\ pc = "exited"
  /\ exitCode = 0
  /\ ext = <<".", "t", "s", "x">>
  /\ loader = "tree-sitter-javascript"
  /\ DOMAIN registry = DOMAIN LANGUAGE_LOADERS

\* the extensions of the JavaScript family
JavaScriptExts ==
  { <<".", "j", "s">>, <<".", "j", "s", "x">>, <<".", "t", "s">>,
    <<".", "t", "s", "x">> }

TextDone == pc = "exited" /\ ~jsonMode /\ exitCode = 0 /\ tree # NoTree

\* the named nodes of a tree
NamedNodes(t) == {n \in NodesOf(t) : NodeIsNamed(t, n)}

\* the parent of a node other than the root
ParentIn(t, n) ==
  CASE t.shape = "star" -> 0
    [] t.shape = "chain" -> n - 1
    [] t.shape = "fork" -> IF n = ForkSplit(t) + 1 THEN 0 ELSE n - 1
    [] OTHER -> t.par[n]

\* what a tree says of its named nodes, in document order: the type of each
\* and the place in this list of its parent (0 for the root)
NamedStructure(t) ==
  LET named == NamedNodes(t)
      place(n) == Cardinality({m \in named : m <= n})
      nth(i) == CHOOSE n \in named : place(n) = i
  IN  [i \in 1..Cardinality(named) |->
         [type |-> NodeType(t, nth(i)),
          parent |-> IF nth(i) = RootNode(t) THEN 0
                     ELSE place(ParentIn(t, nth(i)))]]

\* an S-expression read back: for each opening parenthesis, the type name
\* that follows it and the place of the node whose parentheses enclose it
RECURSIVE Reparse(_, _, _, _)
Reparse(text, i, open, acc) ==
  IF i > Len(text) THEN acc
  ELSE IF text[i] = "("
  THEN Reparse(text, i + 2, Append(open, Len(acc) + 1),
               Append(acc, [type |-> text[i + 1],
                            parent |-> IF open = <<>> THEN 0
                                       ELSE open[Len(open)]]))
  ELSE IF text[i] = ")" /\ open # <<>>
  THEN Reparse(text, i + 1, SubSeq(open, 1, Len(open) - 1), acc)
  ELSE <<>>

\* C17: without --json the run never enters the JSON traversal; it prints
\* one S-expression with a pair of parentheses for every named node of the
\* tree, however many there are, and exits with 0; read back, the nesting
\* of the type names is the parent/child relation of the tree
C17_TextComplete ==
  /\ ~jsonMode =>
       /\ pc # "traverse"
       /\ queue = <<>> /\ out = <<>> /\ visited = <<>>
  /\ (pc = "exited" /\ ~jsonMode /\ tree # NoTree) => exitCode = 0
  /\ TextDone =>
       /\ Len(stdout) = 1
       /\ LET text == stdout[1]
              k == Cardinality(NamedNodes(tree))
          IN  /\ Cardinality({i \in 1..Len(text) : text[i] = "("}) = k
              /\ Cardinality({i \in 1..Len(text) : text[i] = ")"}) = k
              /\ Len(text) = 3 * k
              /\ text[1] = "(" /\ text[2] = NodeType(tree, RootNode(tree))
              /\ text[Len(text)] = ")"
              /\ tree.shape = "explicit" =>
                   Reparse(text, 1, <<>>, <<>>) = NamedStructure(tree)
              /\ tree.shape = "star" =>
                   \A j \in 1..(k - 1) :
                     /\ text[3 * j] = "("
                     /\ text[3 * j + 1] = NodeType(tree, 2 * j - 1)
                     /\ text[3 * j + 2] = ")"

\* text mode printed a tree with more than 2000 named nodes in full
C17_Witness ==
  /\ TextDone
  /\ Cardinality(NamedNodes(tree)) > NODE_CAP
  /\ Len(stdout[1]) > 3 * NODE_CAP

\* the steps of the given names, in the order in which the run took them
StepsAmong(names) == SelectSeq(calls, LAMBDA c : c \in names)

IsPrefix(s, t) == Len(s) <= Len(t) /\ s = SubSeq(t, 1, Len(s))

\* C18 as claimed: the file is read, then the grammar is loaded, then the
\* text is parsed, each step after the one before
C18_Original ==
  IsPrefix(StepsAmong({"readFileSync", "loader", "parse"}),
           <<"readFileSync", "loader", "parse">>)

\* C18 as amended: the steps of a run are, in this order, the existence
\* check, the registry lookup, the grammar load, the read of the file and
\* the parse, so the grammar is loaded before the file is read; a step is
\* taken only when the one before it completed without error, output is
\* written only after the parse returned a tree, and a run that exits with
\* status 0 has taken every step and printed once
C18_PipelineOrder ==
  /\ IsPrefix(calls, StepsToTree)
  /\ Len(calls) >= 2 => fileKind \notin {Undefined, "missing"}
  /\ Len(calls) >= 3 => loader # Undefined
  /\ Len(calls) >= 4 => Language = loader
  /\ Len(calls) >= 5 => code # Undefined
  /\ tree # NoTree => calls = StepsToTree
  /\ stdout # <<>> => (tree # NoTree /\ pc = "exited")
  /\ (pc = "exited" /\ exitCode = 0) =>
       (calls = StepsToTree /\ Len(stdout) = 1)
  /\ (pc = "exited" /\ calls # StepsToTree) => exitCode \in {1, 2}

\* a JSON run took the five steps, printed and ended
C18_Witness ==
  /\ pc = "exited"
  /\ exitCode = 0
  /\ jsonMode
  /\ calls = <<"existsSync", "lookup", "loader", "readFileSync", "parse">>
  /\ Len(stdout) = 1

\* the commands of the given name that this run of parse-cloned.sh ran
CmdsNamed(name) == SelectSeq(cmds, LAMBDA c : c.cmd = name)

\* C19: a run of parse-cloned.sh runs git clone if and only if its test
\* found no directory .parsers/<repo>, never before the test and at most
\* once; over all runs in one directory each repository is cloned with
\* success at most once, and then its directory exists
C19_CloneIffAbsent ==
  LET clones == CmdsNamed("git clone --depth 1")
  IN  /\ dirSeen = Undefined => clones = <<>>
      /\ dirSeen = "present" => clones = <<>>
      /\ dirSeen = "absent" =>
           clones = <<Cmd("git clone --depth 1", Slash(PARSER_ROOT, REPO_DIR),
                          StartDir)>>
      /\ shPc \in {"update", "generate", "parse"} => REPO_DIR \in dirs
      /\ shPc \notin {"idle"} =>
           \A r \in Repos :
             /\ cloneCount[r] <= 1
             /\ cloneCount[r] = 1 <=> r \in dirs

\* a second run found the clone of the first run and went on to parse
\* without cloning
C19_Witness ==
  /\ runs = 2
  /\ shPc = "exited"
  /\ shStatus = 0
  /\ dirSeen = "present"
  /\ cloneCount[REPO_DIR] = 1
  /\ CmdsNamed("git clone --depth 1") = <<>>
  /\ CmdsNamed("tree-sitter parse") # <<>>

\* C20 as claimed: tree-sitter parse runs inside the clone, on a path that
\* denotes the file the existence check accepted, which for a relative
\* target is the file of that name under the directory the script was
\* started in
C20_Original ==
  \A i \in 1..Len(cmds) :
    cmds[i].cmd = "tree-sitter parse" =>
      /\ cmds[i].cwd = Slash(StartDir, CLONE_PATH)
      /\ cmds[i].arg = Resolve(StartDir, TARGET)

\* an argument of parse-cloned.sh that is none of its flags
IsPositional(x) == x \notin HelpFlags \cup {UpdateFlag, ListFlag}

\* the argument at place i ends the loop over the arguments: a help flag,
\* or a positional argument after a non-empty positional argument
EndsLoop(a, i) ==
  \/ a[i] \in HelpFlags
  \/ /\ IsPositional(a[i])
     /\ \E j \in 1..(i - 1) : IsPositional(a[j]) /\ a[j] # <<>>

\* the place of the first argument that ends the loop, 0 without one
FirstStop(a) ==
  IF \E i \in 1..Len(a) : EndsLoop(a, i)
  THEN CHOOSE i \in 1..Len(a) :
         EndsLoop(a, i) /\ \A j \in 1..(i - 1) : ~EndsLoop(a, j)
  ELSE 0

\* the run was started with --list among its arguments
ListGiven == ListFlag \in Range(argv0)

\* what --list prints
Listing ==
  <<Line("Cloned grammar repositories:", <<>>), Line("ls -1", dirs)>>

\* the steps that work on a grammar repository
RepoWork ==
  {"git clone --depth 1", "git pull --ff-only",
   "tree-sitter generate >/dev/null 2>&1", "tree-sitter generate",
   "realpath", "tree-sitter parse"}

\* this run has run one of the steps that work on a grammar repository
DidRepoWork == \E i \in 1..Len(cmds) : cmds[i].cmd \in RepoWork

\* C21 as claimed: a run with --list prints the listing and exits with 0,
\* and runs no clone, pull, generate or parse
C21_Original ==
  (ListGiven /\ shPc = "exited") =>
    /\ shStatus = 0
    /\ shOut = Listing
    /\ ~DidRepoWork

\* C21 as amended: a run with --list never tests the target and never
\* clones, pulls, generates or parses; it prints the listing and exits
\* with 0 when .parsers could be created and no argument ended the loop
\* early; else it ends before the listing, with status 1 when mkdir
\* failed or a second positional argument was met, with the help text and
\* status 0 when a help flag was met
C21_ListOnly ==
  ListGiven =>
    /\ ~DidRepoWork
    /\ targetKind = Undefined
    /\ shPc \in {"start", "args", "exited"}
    /\ shPc = "exited" =>
         LET stop == FirstStop(argv0)
         IN  IF rootKind = "file"
             THEN shStatus = 1 /\ shOut = <<>>
             ELSE IF stop = 0
             THEN shStatus = 0 /\ shOut = Listing /\ shErr = <<>>
             ELSE IF argv0[stop] \in HelpFlags
             THEN shStatus = 0 /\ shOut = <<Line("header comment", <<>>)>>
             ELSE shStatus = 1 /\ shOut = <<>>

\* a second run, given --list and a target, listed the clone the first run
\* made and ended with status 0
C21_Witness ==
  /\ runs = 2
  /\ shPc = "exited"
  /\ ListGiven
  /\ TARGET = <<"a", ".", "j", "s">>
  /\ dirs # {}
  /\ shOut = Listing
  /\ shStatus = 0

\* the places in cmds of the commands of the given names
PlacesOf(names) == {i \in 1..Len(cmds) : cmds[i].cmd \in names}

\* git pull failed in this run
PullFailed ==
  \E i \in 1..Len(shErr) :
    shErr[i].text = "fatal: Not possible to fast-forward"

\* C22: git pull is run in a run that was given --update and in no other,
\* once, inside the clone directory, which exists by then, and before every
\* generate and the parse; after a pull that failed the run goes on to
\* generate and, when that succeeds, to parse
C22_UpdateStep ==
  LET pulls == PlacesOf({"git pull --ff-only"})
      later == PlacesOf({"tree-sitter generate >/dev/null 2>&1",
                         "tree-sitter generate", "realpath",
                         "tree-sitter parse"})
  IN  /\ pulls # {} =>
           /\ UpdateFlag \in Range(argv0)
           /\ UPDATE
           /\ Cardinality(pulls) = 1
           /\ REPO_DIR \in dirs
           /\ \A i \in pulls :
                /\ cmds[i].cwd = Slash(StartDir, Slash(PARSER_ROOT, REPO_DIR))
                /\ \A j \in later : i < j
      /\ later # {} => (pulls # {} <=> UpdateFlag \in Range(argv0))
      /\ PullFailed =>
           /\ shPc \in {"generate", "parse", "exited"}
           /\ shPc \in {"parse", "exited"} => later # {}
           /\ (shPc = "exited" /\ shStatus = 0) =>
                PlacesOf({"tree-sitter parse"}) # {}

\* a run whose pull failed went on to generate and parse and ended with 0
C22_Witness ==
  /\ shPc = "exited"
  /\ PullFailed
  /\ shStatus = 0
  /\ PlacesOf({"tree-sitter parse"}) # {}
  /\ PlacesOf({"git clone --depth 1"}) = {}

\* the positional arguments of a command line, in the order given
Positionals(a) == SelectSeq(a, IsPositional)

\* the extensions the header comment of parse-cloned.sh names
ShSupportedExts ==
  { <<"j", "s">>, <<"j", "s", "x">>, <<"t", "s">>, <<"t", "s", "x">>,
    <<"p", "y">>, <<"j", "s", "o", "n">>, <<"r", "s">> }

\* the extension of a path as a reader takes it: what follows the last dot
\* of the file name, nothing for a name without a dot
ExtensionOf(p) ==
  LET e == ExtName(p) IN IF e = <<>> THEN <<>> ELSE Tail(e)

\* a run that is not cut short by a failed mkdir, --list or a help flag
PlainShRun ==
  /\ shPc = "exited"
  /\ rootKind # "file"
  /\ ~ListGiven
  /\ HelpFlags \cap Range(argv0) = {}

\* C23 as claimed: two positional arguments or none give status 1, so does
\* a target that is no existing file, and an existing target whose
\* extension is not one of the seven gives status 2; nothing has worked on
\* a repository then
C23_Original ==
  PlainShRun =>
    LET given == Positionals(argv0)
    IN  /\ Len(given) # 1 => (shStatus = 1 /\ ~DidRepoWork)
        /\ (Len(given) = 1 /\ targetKind # "file") =>
             (shStatus = 1 /\ ~DidRepoWork)
        /\ (Len(given) = 1 /\ targetKind = "file"
               /\ ExtensionOf(given[1]) \notin ShSupportedExts) =>
             (shStatus = 2 /\ ~DidRepoWork)

\* the target of a command line: its first non-empty positional argument
TargetOf(a) ==
  LET given == SelectSeq(Positionals(a), LAMBDA x : x # <<>>)
  IN  IF given = <<>> THEN <<>> ELSE given[1]

\* C23 as amended: in a run not cut short by a failed mkdir, --list or a
\* help flag, the first of these that applies decides: a positional
\* argument after a non-empty one gives status 1; no non-empty positional
\* argument gives status 1; a target that is no regular file gives status
\* 1; a target for which the text after its last dot (the whole target
\* when it has no dot), in the case as written, is none of js, jsx, ts,
\* tsx, py, json, rs gives status 2; on each of these exits nothing has
\* worked on a repository; in every other such run something has
C23_ErrorExits ==
  PlainShRun =>
    LET stop == FirstStop(argv0)
        target == TargetOf(argv0)
    IN  IF stop # 0
        THEN /\ shStatus = 1
             /\ shErr = <<Line("Extra argument: ", argv0[stop])>>
             /\ ~DidRepoWork
        ELSE IF target = <<>>
        THEN /\ shStatus = 1
             /\ shErr = <<Line("Error: no target file provided", <<>>)>>
             /\ ~DidRepoWork
        ELSE IF targetKind # "file"
        THEN /\ shStatus = 1
             /\ shErr = <<Line("Error: file not found: ", target)>>
             /\ ~DidRepoWork
        ELSE IF ShExt(target) \notin ShSupportedExts
        THEN /\ shStatus = 2
             /\ shErr[1] = Line("Unsupported extension: .", ShExt(target))
             /\ ~DidRepoWork
        ELSE DidRepoWork

\* a run on an existing file with an extension in capitals ended with
\* status 2 and no work on a repository
C23_Witness ==
  /\ shPc = "exited"
  /\ TARGET = <<"a", ".", "J", "S">>
  /\ targetKind = "file"
  /\ shStatus = 2
  /\ cmds = <<Cmd("mkdir -p", PARSER_ROOT, StartDir)>>

\* the capital letters that occur in the paths explored
Capitals == {"A", "J", "N", "O", "P", "R", "S", "T", "X", "Y"}

\* C24 as claimed: the key of the lookup is the lowercased extension
\* without its leading dot
C24_Original ==
  "lookup" \in Range(calls) =>
    /\ \A i \in 1..Len(ext) : ext[i] \notin Capitals
    /\ ext = ToLowerCase(ExtensionOf(targetPath))

\* C24 as amended: the key of the lookup is the extension as path.extname
\* gives it, with its leading dot, in lower case; the keys of the registry
\* all start with a dot; a.JS and a.js both resolve to the JavaScript
\* grammar
C24_LowercasedKey ==
  /\ \A k \in DOMAIN registry : k[1] = "."
  /\ "lookup" \in Range(calls) =>
       /\ \A i \in 1..Len(ext) : ext[i] \notin Capitals
       /\ Len(ext) = Len(ExtName(targetPath))
       /\ ext # <<>> => ext[1] = "."
       /\ ext \in DOMAIN LANGUAGE_LOADERS => loader = LANGUAGE_LOADERS[ext]
       /\ ext \notin DOMAIN LANGUAGE_LOADERS => loader = Undefined
       /\ targetPath \in { <<"a", ".", "J", "S">>, <<"a", ".", "j", "s">> } =>
            /\ ext = <<".", "j", "s">>
            /\ loader = "tree-sitter-javascript"

\* a run on a.JS resolved to the JavaScript grammar and ended well
C24_Witness ==
  /\ pc = "exited"
  /\ exitCode = 0
  /\ targetPath = <<"a", ".", "J", "S">>
  /\ ext = <<".", "j", "s">>
  /\ Language = "tree-sitter-javascript"

\* the number of children of the nodes vs[lo], ..., vs[hi], added up
RECURSIVE SumChildCount(_, _, _, _)
SumChildCount(t, vs, lo, hi) ==
  IF lo > hi THEN 0
  ELSE IF lo = hi THEN ChildCount(t, vs[lo])
  ELSE LET mid == (lo + hi) \div 2
       IN  SumChildCount(t, vs, lo, mid) + SumChildCount(t, vs, mid + 1, hi)

\* the iterations of the loop so far: no more than 2000, one summary each;
\* once the loop has run its condition is false, and the document is
\* printed with the queue empty or with 2000 summaries
LoopBounded ==
  /\ Len(visited) <= NODE_CAP
  /\ Len(out) = Len(visited)
  /\ (pc = "traverse" /\ visited # <<>>) => ~LoopCondition(queue, out)
  /\ JsonDone => (Len(queue) = 0 \/ Len(out) = NODE_CAP)
  /\ (JsonDone /\ tree.size > NODE_CAP) =>
       (Len(out) = NODE_CAP /\ Len(queue) > 0)

\* the loop as a whole: k iterations took k nodes from the queue, put the
\* children of these k nodes on it and appended k summaries
LoopAccounts ==
  (pc = "traverse" /\ pc' = "traverse") =>
    LET k == Len(visited') - Len(visited)
    IN  /\ k >= 1
        /\ k <= NODE_CAP
        /\ Len(out') = Len(out) + k
        /\ Len(queue') =
             Len(queue) - k
             + SumChildCount(tree, visited', Len(visited) + 1, Len(visited'))

\* C25: the JSON traversal ends for every tree: the loop runs at most 2000
\* iterations, each takes one node from the queue and appends one summary,
\* and the loop is over when the queue is empty or 2000 summaries exist,
\* with nodes left on the queue for a larger tree
C25_LoopTerminates == []LoopBounded /\ [][LoopAccounts]_vars

\* the loop stopped after 2000 iterations on a star of 2001 nodes, with the
\* last leaf still on the queue
C25_Witness ==
  /\ JsonDone
  /\ tree.shape = "star"
  /\ tree.size = NODE_CAP + 1
  /\ Len(visited) = NODE_CAP
  /\ queue = <<NODE_CAP>>

\* the types of the named nodes of simple_calc
NamedTypes ==
  Operands \cup {"source_file", "statement", "expression_statement",
                 "expression", "binary_expression",
                 "parenthesized_expression"}

\* a tree as its S-expression lists it: the named nodes and the nodes that
\* fill a field
RECURSIVE Shown(_)
Shown(n) ==
  LET kept == SelectSeq(n.kids,
                        LAMBDA k : k.type \in NamedTypes \/ k.field # "")
  IN  [type |-> n.type, field |-> n.field,
       kids |-> [i \in 1..Len(kept) |-> Shown(kept[i])]]

\* a tree without its statement and expression nodes: each is replaced by
\* its only child
RECURSIVE Unwrapped(_)
Unwrapped(n) ==
  IF n.type \in {"statement", "expression"}
  THEN Field(n.field, Unwrapped(n.kids[1]))
  ELSE [type |-> n.type, field |-> n.field,
        kids |-> [i \in 1..Len(n.kids) |-> Unwrapped(n.kids[i])]]

\* the tree the corpus test "Precedence test" lists, for a o1 b o2 c ;
CorpusTree(a, o1, b, o2, c) ==
  Node("source_file",
       << Node("expression_statement",
               << Node("binary_expression",
                       << Field("left", Leaf(a)),
                          Field("operator", Leaf(o1)),
                          Field("right",
                                Node("binary_expression",
                                     << Field("left", Leaf(b)),
                                        Field("operator", Leaf(o2)),
                                        Field("right", Leaf(c)) >>)) >>) >>) >>)

\* the text parsed is a + b * c ; with + or - first and * or / second
AdditiveThenMultiplicative ==
  /\ Len(source) = 6
  /\ source[1] \in Operands
  /\ source[2] \in PrecedenceTable[1].operators
  /\ source[3] \in Operands
  /\ source[4] \in PrecedenceTable[2].operators
  /\ source[5] \in Operands
  /\ source[6] = ";"

\* the tree of a + b * c ; groups b * c below the right operand of +, once
\* the statement and expression nodes are left out
BindsTighter ==
  (calcPc = "done" /\ AdditiveThenMultiplicative) =>
    Unwrapped(Shown(parsed)) =
      CorpusTree(source[1], source[2], source[3], source[4], source[5])

\* C26 as claimed: the tree of a + b * c ; (likewise with - and /) is the
\* tree the corpus test lists: a binary_expression with the first operator
\* whose right operand is the binary_expression of b * c
C26_Original ==
  (calcPc = "done" /\ AdditiveThenMultiplicative) =>
    Shown(parsed) =
      CorpusTree(source[1], source[2], source[3], source[4], source[5])

\* C27 as claimed: the cache never holds more than 100 entries, it is empty
\* after a call of setLanguage with a language other than the current one,
\* and a tree that parse returns was produced under the current language
C27_Original ==
  /\ Len(parseCache) <= CACHE_LIMIT
  /\ (lastCall.op = "setLanguage" /\ lastCall.changed) => parseCache = <<>>
  /\ (lastCall.op = "parse" /\ ~lastCall.threw) => result.lang = language

\* the part of C27 that holds: the size of the cache, and every tree in the
\* cache was produced under the language the inner parser has
CacheBounded ==
  /\ Len(parseCache) <= CACHE_LIMIT
  /\ \A i \in 1..Len(parseCache) :
       parseCache[i] = Tree(i, parserLanguage)

\* C28: a run of parse.js that ends with a non-zero status has written
\* nothing to standard output; standard output is written only by a run
\* that ends with status zero, and such a run has written to it once
C28_StdoutOnlyOnSuccess ==
  /\ (pc = "exited" /\ exitCode # 0) => stdout = <<>>
  /\ stdout # <<>> => (pc = "exited" /\ exitCode = 0)
  /\ (pc = "exited" /\ exitCode = 0) => Len(stdout) = 1
  /\ (UsageErrorArgs \/ NotFoundRun \/ UnsupportedRun \/ LoadFailureRun) =>
       stdout = <<>>

\* a run that ended on a grammar load failure, with two lines on standard
\* error and none on standard output
C28_Witness ==
  /\ LoadFailureRun
  /\ pc = "exited"
  /\ exitCode = EXIT_LOAD_FAILURE
  /\ Len(stderr) = 2
  /\ stdout = <<>>

\* C29: the nodes array of a JSON document is not empty, and its first
\* entry equals the root field: both are the summary of the root node of
\* the tree that was parsed
C29_RootFirst ==
  JsonDone =>
    LET doc == stdout[1]
    IN  /\ doc.nodes # <<>>
        /\ doc.nodes[1] = doc.root
        /\ doc.root = nodeSummary(tree, RootNode(tree))
        /\ visited[1] = RootNode(tree)

\* a document of a tree of several nodes whose root has one child
C29_Witness ==
  /\ JsonDone
  /\ Len(stdout[1].nodes) = MaxTreeNodes
  /\ stdout[1].nodes[1].childCount = 1
  /\ stdout[1].nodes[1] = stdout[1].root

\* the repository parse-cloned.sh clones for the grammar of a package
RepoOfPackage(package) ==
  CASE package = "tree-sitter-javascript" -> RepoJavaScript
    [] package = "tree-sitter-json" -> RepoJson
    [] package = "tree-sitter-python" -> RepoPython
    [] OTHER -> <<>>

\* C30 as claimed: a path whose extension parse.js resolves to a grammar is
\* a path parse-cloned.sh resolves to the repository of the same grammar
C30_Original ==
  ("lookup" \in Range(calls) /\ loader # Undefined) =>
    RepoCase(ShExt(targetPath)).dir = RepoOfPackage(loader)

\* the two helpers agree on the paths whose extension is written in lower
\* case
AgreeOnLowerCase ==
  ("lookup" \in Range(calls) /\ loader # Undefined
     /\ ToLowerCase(targetPath) = targetPath) =>
    RepoCase(ShExt(targetPath)).dir = RepoOfPackage(loader)

====
